---------------------------- MODULE Spec2Model ----------------------------
(***************************************************************************)
(* Model of the flood-control ETL-and-reporting pipeline of                *)
(* MCO2/Rust/src/MCO2_3_Rust.rs.                                           *)
(*                                                                         *)
(* Conventions.                                                            *)
(*  - A Rust String is a sequence of one-character strings, so trimming,   *)
(*    comma stripping and parsing are computed character by character.     *)
(*  - Option<T> is a sequence of length 0 (None) or 1 (Some(v)).           *)
(*  - An f64 is an exact rational [n, d] in lowest terms with d > 0: the   *)
(*    model covers finite values and abstracts binary rounding.  The text  *)
(*    alphabet of the inputs has no exponent, "inf" or "nan" spelling.     *)
(*  - A HashMap's iteration order is unspecified: every order is possible. *)
(***************************************************************************)
EXTENDS Integers, Sequences, FiniteSets, TLC

VARIABLES csv_file, raw_records, processed_data, origin, errors,
          report1, report2, report3, summary, pc, call,
          system, transactions

vars == <<csv_file, raw_records, processed_data, origin, errors,
          report1, report2, report3, summary, pc, call,
          system, transactions>>

(***************************************************************************)
(* Option<T>                                                               *)
(***************************************************************************)
None == <<>>

Some(v) == <<v>>

IsSome(o) == Len(o) = 1

Unwrap(o) == o[1]

(***************************************************************************)
(* Sequences                                                               *)
(***************************************************************************)
Range(s) == {s[i] : i \in 1..Len(s)}

RECURSIVE SeqsUpTo(_, _)
SeqsUpTo(S, n) ==
    IF n = 0 THEN {<<>>}
    ELSE LET shorter == SeqsUpTo(S, n - 1)
         IN  shorter \cup {Append(s, x) : s \in {t \in shorter : Len(t) = n - 1}, x \in S}

(***************************************************************************)
(* f64 as exact rationals                                                  *)
(***************************************************************************)
Abs(x) == IF x < 0 THEN -x ELSE x

RECURSIVE Gcd(_, _)
Gcd(a, b) == IF b = 0 THEN a ELSE Gcd(b, a % b)

Rat(n, d) ==
    LET g == Gcd(Abs(n), Abs(d))
        s == IF d < 0 THEN -1 ELSE 1
    IN  [n |-> (s * n) \div g, d |-> (s * d) \div g]

RInt(k) == [n |-> k, d |-> 1]

RZero == RInt(0)

RAdd(a, b) == Rat(a.n * b.d + b.n * a.d, a.d * b.d)

RSub(a, b) == Rat(a.n * b.d - b.n * a.d, a.d * b.d)

RMul(a, b) == Rat(a.n * b.n, a.d * b.d)

RDiv(a, b) == Rat(a.n * b.d, a.d * b.n)

RLt(a, b) == a.n * b.d < b.n * a.d

RLe(a, b) == a.n * b.d <= b.n * a.d

RMaxOf(a, b) == IF RLt(a, b) THEN b ELSE a

RAbs(a) == [n |-> Abs(a.n), d |-> a.d]

\* f64::clamp(lo, hi)
RClamp(x, lo, hi) == IF RLt(x, lo) THEN lo ELSE IF RLt(hi, x) THEN hi ELSE x

\* iter().sum::<f64>(); exact addition is associative, so the sequence is
\* summed by halves, which keeps the evaluation shallow.
RECURSIVE RSum(_)
RSum(s) ==
    IF s = <<>> THEN RZero
    ELSE IF Len(s) = 1 THEN RAdd(RZero, s[1])
    ELSE LET h == Len(s) \div 2
         IN  RAdd(RSum(SubSeq(s, 1, h)), RSum(SubSeq(s, h + 1, Len(s))))

\* iter().sum::<i64>()
RECURSIVE ISum(_)
ISum(s) ==
    IF s = <<>> THEN 0
    ELSE IF Len(s) = 1 THEN s[1]
    ELSE LET h == Len(s) \div 2
         IN  ISum(SubSeq(s, 1, h)) + ISum(SubSeq(s, h + 1, Len(s)))

(***************************************************************************)
(* Text                                                                    *)
(***************************************************************************)
Digits == <<"0", "1", "2", "3", "4", "5", "6", "7", "8", "9">>

IsDigit(c) == \E i \in 1..10 : Digits[i] = c

DigitVal(c) == (CHOOSE i \in 1..10 : Digits[i] = c) - 1

IsWhitespace(c) == c \in {" ", "\t", "\n", "\r"}

\* str::trim
RECURSIVE TrimStart(_)
TrimStart(s) ==
    IF s # <<>> /\ IsWhitespace(s[1]) THEN TrimStart(Tail(s)) ELSE s

RECURSIVE TrimEnd(_)
TrimEnd(s) ==
    IF s # <<>> /\ IsWhitespace(s[Len(s)]) THEN TrimEnd(SubSeq(s, 1, Len(s) - 1)) ELSE s

Trim(s) == TrimEnd(TrimStart(s))

\* str::replace(',', "")
RemoveCommas(s) == SelectSeq(s, LAMBDA c : c # ",")

AllDigits(s) == \A i \in 1..Len(s) : IsDigit(s[i])

I32Max == 2147483647

\* Digit accumulation as i32::from_str does it: checked_mul(10), then
\* checked_add (checked_sub when negative) of the digit; None on overflow.
RECURSIVE CheckedDigits(_, _)
CheckedDigits(s, neg) ==
    IF s = <<>> THEN Some(0)
    ELSE LET hi == CheckedDigits(SubSeq(s, 1, Len(s) - 1), neg)
             lo == DigitVal(s[Len(s)])
         IN  IF hi = None THEN None
             ELSE IF neg
                  THEN IF Unwrap(hi) < -(I32Max \div 10) THEN None
                       ELSE IF lo - 1 > Unwrap(hi) * 10 + I32Max THEN None
                       ELSE Some(Unwrap(hi) * 10 - lo)
                  ELSE IF Unwrap(hi) > I32Max \div 10 THEN None
                       ELSE IF lo > I32Max - Unwrap(hi) * 10 THEN None
                       ELSE Some(Unwrap(hi) * 10 + lo)

\* str::parse::<i32>: an optional sign, then one or more digits, within i32.
ParseI32(s) ==
    LET signed == s # <<>> /\ s[1] \in {"+", "-"}
        body   == IF signed THEN Tail(s) ELSE s
    IN  IF body = <<>> \/ ~AllDigits(body) THEN None
        ELSE CheckedDigits(body, signed /\ s[1] = "-")

\* The value of a digit string.
RECURSIVE DigitsValue(_)
DigitsValue(s) ==
    IF s = <<>> THEN 0 ELSE DigitsValue(SubSeq(s, 1, Len(s) - 1)) * 10 + DigitVal(s[Len(s)])

RECURSIVE Pow10(_)
Pow10(k) == IF k = 0 THEN 1 ELSE 10 * Pow10(k - 1)

\* str::parse::<f64> on decimal literals: an optional sign, digits with at
\* most one '.', at least one digit.
ParseF64(s) ==
    LET signed == s # <<>> /\ s[1] \in {"+", "-"}
        body   == IF signed THEN Tail(s) ELSE s
        dots   == {i \in 1..Len(body) : body[i] = "."}
        digs   == SelectSeq(body, IsDigit)
        frac   == IF dots = {} THEN 0 ELSE Len(body) - (CHOOSE i \in dots : TRUE)
        mag    == DigitsValue(digs)
    IN  IF \/ digs = <<>>
           \/ Cardinality(dots) > 1
           \/ \E i \in 1..Len(body) : ~IsDigit(body[i]) /\ body[i] # "."
        THEN None
        ELSE Some(Rat(IF signed /\ s[1] = "-" THEN -mag ELSE mag, Pow10(frac)))

(***************************************************************************)
(* Calendar dates (chrono::NaiveDate) as [y, m, d]                         *)
(***************************************************************************)
IsLeap(y) == (y % 4 = 0 /\ y % 100 # 0) \/ y % 400 = 0

DaysInMonth(y, m) ==
    IF m = 2 THEN (IF IsLeap(y) THEN 29 ELSE 28)
    ELSE IF m \in {4, 6, 9, 11} THEN 30 ELSE 31

\* Days since 1970-01-01 in the proleptic Gregorian calendar.
DayNumber(date) ==
    LET y   == IF date.m <= 2 THEN date.y - 1 ELSE date.y
        era == y \div 400
        yoe == y - era * 400
        mp  == IF date.m > 2 THEN date.m - 3 ELSE date.m + 9
        doy == (153 * mp + 2) \div 5 + date.d - 1
        doe == yoe * 365 + yoe \div 4 - yoe \div 100 + doy
    IN  era * 146097 + doe - 719468

\* The number of leading digits of s, at most max.
LeadingDigits(s, max) ==
    LET top == IF Len(s) < max THEN Len(s) ELSE max
    IN  CHOOSE n \in 0..top :
            /\ \A i \in 1..n : IsDigit(s[i])
            /\ n = top \/ ~IsDigit(s[n + 1])

\* A numeric field of the chrono parser, read from what is left of the
\* text: whitespace in front is skipped, then 1 to width digits are read
\* (every digit that follows after a sign, which only the year may carry).
\* Gives the fields read so far and the text that follows, or None.
ScanNumber(parsed, width, signed) ==
    IF parsed = None THEN None
    ELSE LET t    == TrimStart(Unwrap(parsed).rest)
             sign == signed /\ t # <<>> /\ t[1] \in {"+", "-"}
             body == IF sign THEN Tail(t) ELSE t
             n    == LeadingDigits(body, IF sign THEN Len(body) ELSE width)
             v    == DigitsValue(SubSeq(body, 1, n))
         IN  IF n = 0 THEN None
             ELSE Some([fields |-> Append(Unwrap(parsed).fields,
                                          IF sign /\ t[1] = "-" THEN -v ELSE v),
                        rest   |-> SubSeq(body, n + 1, Len(body))])

\* A literal '-' of the format, read from what is left of the text.
ScanDash(parsed) ==
    IF parsed = None THEN None
    ELSE IF Unwrap(parsed).rest # <<>> /\ Unwrap(parsed).rest[1] = "-"
    THEN Some([fields |-> Unwrap(parsed).fields,
               rest   |-> Tail(Unwrap(parsed).rest)])
    ELSE None

\* NaiveDate::parse_from_str(s, "%Y-%m-%d"): a year field of up to four
\* digits (or signed), '-', a month field and '-', a day field of one or
\* two digits each, nothing after, and a date that exists.
ParseDate(s) ==
    LET year   == ScanNumber(Some([fields |-> <<>>, rest |-> s]), 4, TRUE)
        month  == ScanNumber(ScanDash(year), 2, FALSE)
        parsed == ScanNumber(ScanDash(month), 2, FALSE)
    IN  IF parsed = None THEN None
        ELSE IF Unwrap(parsed).rest # <<>> THEN None
        ELSE LET ymd == Unwrap(parsed).fields
             IN  IF ymd[2] \in 1..12 /\ ymd[3] >= 1
                    /\ ymd[3] <= DaysInMonth(ymd[1], ymd[2])
                 THEN Some([y |-> ymd[1], m |-> ymd[2], d |-> ymd[3]])
                 ELSE None

(***************************************************************************)
(* Validation                                                              *)
(***************************************************************************)
NA == <<"N", "/", "A">>

Unknown == <<"U", "n", "k", "n", "o", "w", "n">>

validate_date(date_str) ==
    IF Trim(date_str) = <<>> \/ date_str = NA THEN None
    ELSE ParseDate(date_str)

\* A variant of validate_number that parses the text with its commas.
validate_number_keep_commas(value) ==
    IF Trim(value) = <<>> \/ value = NA THEN None
    ELSE ParseF64(Trim(value))

validate_number(value) ==
    IF Trim(value) = <<>> \/ value = NA THEN None
    ELSE ParseF64(Trim(RemoveCommas(value)))

MinYear == 2021

MaxYear == 2023

\* A variant of is_valid_year whose upper bound is off by one.
is_valid_year_wide(year) == year >= MinYear /\ year <= MaxYear + 1

is_valid_year(year) == year >= MinYear /\ year <= MaxYear

Msg(text, arg) == [msg |-> text, arg |-> arg]

\* A variant of validate_record that stops at the first rule violated.
validate_record_short_circuit(record) ==
    LET year == ParseI32(record.funding_year)
        errs == IF Trim(record.region) = <<>>
                THEN <<Msg("Missing Region", <<>>)>>
                ELSE IF Trim(record.main_island) = <<>>
                THEN <<Msg("Missing MainIsland", <<>>)>>
                ELSE IF year = None \/ ~is_valid_year(Unwrap(year))
                THEN <<Msg("Invalid FundingYear: ", record.funding_year)>>
                ELSE IF Trim(record.approved_budget_for_contract) = <<>>
                THEN <<Msg("Missing ApprovedBudgetForContract", <<>>)>>
                ELSE IF Trim(record.contract_cost) = <<>>
                THEN <<Msg("Missing ContractCost", <<>>)>>
                ELSE <<>>
    IN  [is_valid |-> errs = <<>>, errors |-> errs]

validate_record(record) ==
    LET year == ParseI32(record.funding_year)
        e1 == IF Trim(record.region) = <<>>
              THEN <<Msg("Missing Region", <<>>)>> ELSE <<>>
        e2 == IF Trim(record.main_island) = <<>>
              THEN <<Msg("Missing MainIsland", <<>>)>> ELSE <<>>
        e3 == IF year = None \/ ~(IF IsSome(year) THEN is_valid_year(Unwrap(year)) ELSE FALSE)
              THEN <<Msg("Invalid FundingYear: ", record.funding_year)>> ELSE <<>>
        e4 == IF Trim(record.approved_budget_for_contract) = <<>>
              THEN <<Msg("Missing ApprovedBudgetForContract", <<>>)>> ELSE <<>>
        e5 == IF Trim(record.contract_cost) = <<>>
              THEN <<Msg("Missing ContractCost", <<>>)>> ELSE <<>>
        errs == e1 \o e2 \o e3 \o e4 \o e5
    IN  [is_valid |-> errs = <<>>, errors |-> errs]

\* A variant of clean_record that copies contractor and type_of_work as read.
clean_record_names_as_read(record) ==
    LET validation      == validate_record(record)
        approved_budget == validate_number(record.approved_budget_for_contract)
        contract_cost   == validate_number(record.contract_cost)
        funding_year    == ParseI32(record.funding_year)
    IN  IF ~validation.is_valid THEN None
        ELSE IF approved_budget = None THEN None
        ELSE IF contract_cost = None THEN None
        ELSE IF funding_year = None THEN None
        ELSE Some([region |-> record.region,
                   main_island |-> record.main_island,
                   funding_year |-> Unwrap(funding_year),
                   approved_budget_for_contract |-> Unwrap(approved_budget),
                   contract_cost |-> Unwrap(contract_cost),
                   start_date |-> validate_date(record.start_date),
                   actual_completion_date |-> validate_date(record.actual_completion_date),
                   project_latitude |-> validate_number(record.project_latitude),
                   project_longitude |-> validate_number(record.project_longitude),
                   province |-> record.province,
                   contractor |-> record.contractor,
                   type_of_work |-> record.type_of_work])

clean_record(record) ==
    LET validation      == validate_record(record)
        approved_budget == validate_number(record.approved_budget_for_contract)
        contract_cost   == validate_number(record.contract_cost)
        funding_year    == ParseI32(record.funding_year)
    IN  IF ~validation.is_valid THEN None
        ELSE IF approved_budget = None THEN None
        ELSE IF contract_cost = None THEN None
        ELSE IF funding_year = None THEN None
        ELSE Some([region |-> record.region,
                   main_island |-> record.main_island,
                   funding_year |-> Unwrap(funding_year),
                   approved_budget_for_contract |-> Unwrap(approved_budget),
                   contract_cost |-> Unwrap(contract_cost),
                   start_date |-> validate_date(record.start_date),
                   actual_completion_date |-> validate_date(record.actual_completion_date),
                   project_latitude |-> validate_number(record.project_latitude),
                   project_longitude |-> validate_number(record.project_longitude),
                   province |-> record.province,
                   contractor |-> IF Trim(record.contractor) = <<>>
                                  THEN Unknown ELSE record.contractor,
                   type_of_work |-> IF Trim(record.type_of_work) = <<>>
                                    THEN Unknown ELSE record.type_of_work])

(***************************************************************************)
(* Transformation                                                          *)
(***************************************************************************)
calculate_cost_savings(approved_budget, contract_cost) ==
    RSub(approved_budget, contract_cost)

\* A variant of calculate_completion_delay that gives the length of the
\* interval whichever date comes first.
calculate_completion_delay_unsigned(start_date, completion_date) ==
    IF IsSome(start_date) /\ IsSome(completion_date)
    THEN Some(Abs(DayNumber(Unwrap(completion_date)) - DayNumber(Unwrap(start_date))))
    ELSE None

calculate_completion_delay(start_date, completion_date) ==
    IF IsSome(start_date) /\ IsSome(completion_date)
    THEN Some(DayNumber(Unwrap(completion_date)) - DayNumber(Unwrap(start_date)))
    ELSE None

add_derived_fields(record) ==
    [region |-> record.region,
     main_island |-> record.main_island,
     funding_year |-> record.funding_year,
     approved_budget_for_contract |-> record.approved_budget_for_contract,
     contract_cost |-> record.contract_cost,
     start_date |-> record.start_date,
     actual_completion_date |-> record.actual_completion_date,
     project_latitude |-> record.project_latitude,
     project_longitude |-> record.project_longitude,
     province |-> record.province,
     contractor |-> record.contractor,
     type_of_work |-> record.type_of_work,
     cost_savings |-> calculate_cost_savings(record.approved_budget_for_contract,
                                             record.contract_cost),
     completion_delay_days |-> calculate_completion_delay(record.start_date,
                                                          record.actual_completion_date)]

\* The number of elements of s that satisfy Test.
Count(s, Test(_)) == Len(SelectSeq(s, Test))

\* map(|r| r.field).collect()
MapSeq(s, F(_)) == [i \in 1..Len(s) |-> F(s[i])]

\* The Some values of a sequence of options, in order (filter_map).
FilterMap(s) == MapSeq(SelectSeq(s, IsSome), Unwrap)

\* province_coords: the known latitudes and longitudes of each non-empty
\* province, in record order.
province_coords(records) ==
    [p \in {records[i].province : i \in {j \in 1..Len(records) : records[j].province # <<>>}} |->
        LET recs == SelectSeq(records, LAMBDA r : r.province = p)
        IN  <<FilterMap([i \in 1..Len(recs) |-> recs[i].project_latitude]),
              FilterMap([i \in 1..Len(recs) |-> recs[i].project_longitude])>>]

\* A variant of province_averages that divides each sum by the number of
\* records of the province instead of the number of known values.
province_averages_per_record(records) ==
    LET coords == province_coords(records)
    IN  [p \in DOMAIN coords |->
            LET size == Count(records, LAMBDA r : r.province = p)
            IN  <<IF coords[p][1] # <<>>
                  THEN Some(RDiv(RSum(coords[p][1]), RInt(size))) ELSE None,
                  IF coords[p][2] # <<>>
                  THEN Some(RDiv(RSum(coords[p][2]), RInt(size))) ELSE None>>]

province_averages(records) ==
    LET coords == province_coords(records)
    IN  [p \in DOMAIN coords |->
            <<IF coords[p][1] # <<>>
              THEN Some(RDiv(RSum(coords[p][1]), RInt(Len(coords[p][1])))) ELSE None,
              IF coords[p][2] # <<>>
              THEN Some(RDiv(RSum(coords[p][2]), RInt(Len(coords[p][2])))) ELSE None>>]

\* A variant of impute_coordinates that writes the province average over
\* every coordinate of a record that lacks one.
impute_coordinates_overwriting(records) ==
    LET averages == province_averages(records)
    IN  [i \in 1..Len(records) |->
            LET record == records[i]
            IN  IF /\ record.project_latitude = None \/ record.project_longitude = None
                   /\ record.province \in DOMAIN averages
                THEN [record EXCEPT
                        !.project_latitude  = averages[record.province][1],
                        !.project_longitude = averages[record.province][2]]
                ELSE record]

impute_coordinates(records) ==
    LET averages == province_averages(records)
    IN  [i \in 1..Len(records) |->
            LET record == records[i]
            IN  IF /\ record.project_latitude = None \/ record.project_longitude = None
                   /\ record.province \in DOMAIN averages
                THEN [record EXCEPT
                        !.project_latitude  = IF @ = None THEN averages[record.province][1] ELSE @,
                        !.project_longitude = IF @ = None THEN averages[record.province][2] ELSE @]
                ELSE record]

FilterStart == 2021

FilterEnd == 2023

\* A variant of filter_by_year_range that ignores its bounds and uses the
\* pipeline's fixed ones.
filter_by_year_range_fixed(records, start_year, end_year) ==
    SelectSeq(records, LAMBDA r : r.funding_year >= FilterStart /\ r.funding_year <= FilterEnd)

\* A variant of filter_by_year_range that excludes the end year.
filter_by_year_range_exclusive(records, start_year, end_year) ==
    SelectSeq(records, LAMBDA r : r.funding_year >= start_year /\ r.funding_year < end_year)

filter_by_year_range(records, start_year, end_year) ==
    SelectSeq(records, LAMBDA r : r.funding_year >= start_year /\ r.funding_year <= end_year)

(***************************************************************************)
(* Computation                                                             *)
(***************************************************************************)
\* f64::round: to the nearest integer, halves away from zero.
RRound(x) ==
    LET q == (2 * Abs(x.n) + x.d) \div (2 * x.d)
    IN  RInt(IF x.n < 0 THEN -q ELSE q)

\* sort_by(|a, b| a.partial_cmp(b).unwrap()): a stable ascending sort.  The
\* element at position i moves to 1 + the number of elements that are below
\* it, or equal to it and before it.
SortAsc(s) ==
    LET place == [i \in 1..Len(s) |->
                     1 + Cardinality({j \in 1..Len(s) :
                                        RLt(s[j], s[i]) \/ (s[j] = s[i] /\ j < i)})]
    IN  [k \in 1..Len(s) |-> s[CHOOSE i \in 1..Len(s) : place[i] = k]]

\* The decimal digits of a natural number.
RECURSIVE NatText(_)
NatText(n) ==
    IF n < 10 THEN <<Digits[n + 1]>> ELSE NatText(n \div 10) \o <<Digits[(n % 10) + 1]>>

\* The last width digits of a natural number, zeros in front.
RECURSIVE PaddedText(_, _)
PaddedText(n, width) ==
    IF width = 0 THEN <<>> ELSE PaddedText(n \div 10, width - 1) \o <<Digits[(n % 10) + 1]>>

\* format!("{:.1$}", x, decimals) for an x that is a whole number of
\* 10^-decimals: the sign (negative is the sign bit of x, which a zero
\* keeps), the integer digits and, when decimals > 0, '.' and the decimals.
FormatFixed(x, decimals, negative) ==
    LET k == (Abs(x.n) * Pow10(decimals)) \div x.d
    IN  (IF negative THEN <<"-">> ELSE <<>>)
        \o NatText(k \div Pow10(decimals))
        \o (IF decimals > 0 THEN <<".">> \o PaddedText(k % Pow10(decimals), decimals)
            ELSE <<>>)

\* str::split('.') on a text with at most one '.'.
SplitPoint(s) ==
    IF \E i \in 1..Len(s) : s[i] = "."
    THEN LET p == CHOOSE i \in 1..Len(s) : s[i] = "."
         IN  <<SubSeq(s, 1, p - 1), SubSeq(s, p + 1, Len(s))>>
    ELSE <<s>>

\* The loop of format_with_commas after the first i characters from the
\* right: each is put in front, after a ',' when i > 0 and i % 3 = 0.
RECURSIVE commas_loop(_, _)
commas_loop(chars, i) ==
    IF i = 0 THEN <<>>
    ELSE <<chars[Len(chars) - (i - 1)]>>
         \o (IF i - 1 > 0 /\ (i - 1) % 3 = 0 THEN <<",">> ELSE <<>>)
         \o commas_loop(chars, i - 1)

\* A variant of format_with_commas that counts the groups from the left.
format_with_commas_from_left(num_str) ==
    LET neg == num_str # <<>> /\ num_str[1] = "-"
        num == IF neg THEN Tail(num_str) ELSE num_str
        Reverse(s) == [i \in 1..Len(s) |-> s[Len(s) + 1 - i]]
    IN  (IF neg THEN <<"-">> ELSE <<>>)
        \o Reverse(commas_loop(Reverse(num), Len(num)))

format_with_commas(num_str) ==
    LET neg == num_str # <<>> /\ num_str[1] = "-"
        num == IF neg THEN Tail(num_str) ELSE num_str
    IN  (IF neg THEN <<"-">> ELSE <<>>) \o commas_loop(num, Len(num))

\* A variant of format_number that drops the digits after the requested
\* decimals instead of rounding.
format_number_truncating(value, decimals) ==
    LET multiplier == RInt(Pow10(decimals))
        scaled     == RMul(value, multiplier)
        cut        == RInt((IF scaled.n < 0 THEN -1 ELSE 1) * (Abs(scaled.n) \div scaled.d))
        formatted  == FormatFixed(RDiv(cut, multiplier), decimals, RLt(value, RZero))
        parts      == SplitPoint(formatted)
        int_part   == format_with_commas(parts[1])
    IN  IF Len(parts) > 1 THEN int_part \o <<".">> \o parts[2] ELSE int_part

format_number(value, decimals) ==
    LET multiplier == RInt(Pow10(decimals))
        rounded    == RDiv(RRound(RMul(value, multiplier)), multiplier)
        formatted  == FormatFixed(rounded, decimals, RLt(value, RZero))
        parts      == SplitPoint(formatted)
        int_part   == format_with_commas(parts[1])
    IN  IF Len(parts) > 1 THEN int_part \o <<".">> \o parts[2] ELSE int_part

format_large_number(value) == format_number(RRound(value), 0)

calculate_median(values) ==
    IF values = <<>> THEN RZero
    ELSE LET sorted == SortAsc(values)
             mid    == Len(sorted) \div 2
         IN  IF Len(sorted) % 2 = 0
             THEN RDiv(RAdd(sorted[mid], sorted[mid + 1]), RInt(2))
             ELSE sorted[mid + 1]

calculate_average(values) ==
    IF values = <<>> THEN RZero ELSE RDiv(RSum(values), RInt(Len(values)))

calculate_average_i64(values) ==
    IF values = <<>> THEN RZero ELSE RDiv(RInt(ISum(values)), RInt(Len(values)))

calculate_percentage(part, total) ==
    IF total = RZero THEN RZero ELSE RMul(RDiv(part, total), RInt(100))

(***************************************************************************)
(* Report 1: regional efficiency                                           *)
(***************************************************************************)
HighDelayDays == 30

\* A variant of report1_group whose score is not clamped.
report1_group_unclamped(region, recs) ==
    LET savings        == MapSeq(recs, LAMBDA r : r.cost_savings)
        median_savings == calculate_median(savings)
        delays         == FilterMap(MapSeq(recs, LAMBDA r : r.completion_delay_days))
        avg_delay      == calculate_average_i64(delays)
        high_delay_pct == IF delays # <<>>
                          THEN calculate_percentage(
                                   RInt(Count(delays, LAMBDA d : d > HighDelayDays)),
                                   RInt(Len(delays)))
                          ELSE RZero
        efficiency_score == IF RLt(RZero, avg_delay)
                            THEN RMul(RDiv(median_savings, avg_delay), RInt(100))
                            ELSE RZero
    IN  [region |-> region,
         main_island |-> recs[1].main_island,
         total_budget |-> RSum(MapSeq(recs, LAMBDA r : r.approved_budget_for_contract)),
         median_savings |-> median_savings,
         avg_delay |-> avg_delay,
         high_delay_pct |-> high_delay_pct,
         efficiency_score |-> efficiency_score]

\* A variant of report1_group whose delay figures divide by the number of
\* all records of the group.
report1_group_all_records(region, recs) ==
    LET savings        == MapSeq(recs, LAMBDA r : r.cost_savings)
        median_savings == calculate_median(savings)
        delays         == FilterMap(MapSeq(recs, LAMBDA r : r.completion_delay_days))
        avg_delay      == RDiv(RInt(ISum(delays)), RInt(Len(recs)))
        high_delay_pct == calculate_percentage(
                              RInt(Count(delays, LAMBDA d : d > HighDelayDays)),
                              RInt(Len(recs)))
        efficiency_score == IF RLt(RZero, avg_delay)
                            THEN RClamp(RMul(RDiv(median_savings, avg_delay), RInt(100)),
                                        RZero, RInt(100))
                            ELSE RZero
    IN  [region |-> region,
         main_island |-> recs[1].main_island,
         total_budget |-> RSum(MapSeq(recs, LAMBDA r : r.approved_budget_for_contract)),
         median_savings |-> median_savings,
         avg_delay |-> avg_delay,
         high_delay_pct |-> high_delay_pct,
         efficiency_score |-> efficiency_score]

\* The Report1Temp of one region group.
report1_group(region, recs) ==
    LET savings        == MapSeq(recs, LAMBDA r : r.cost_savings)
        median_savings == calculate_median(savings)
        delays         == FilterMap(MapSeq(recs, LAMBDA r : r.completion_delay_days))
        avg_delay      == calculate_average_i64(delays)
        high_delay_pct == IF delays # <<>>
                          THEN calculate_percentage(
                                   RInt(Count(delays, LAMBDA d : d > HighDelayDays)),
                                   RInt(Len(delays)))
                          ELSE RZero
        efficiency_score == IF RLt(RZero, avg_delay)
                            THEN RClamp(RMul(RDiv(median_savings, avg_delay), RInt(100)),
                                        RZero, RInt(100))
                            ELSE RZero
    IN  [region |-> region,
         main_island |-> recs[1].main_island,
         total_budget |-> RSum(MapSeq(recs, LAMBDA r : r.approved_budget_for_contract)),
         median_savings |-> median_savings,
         avg_delay |-> avg_delay,
         high_delay_pct |-> high_delay_pct,
         efficiency_score |-> efficiency_score]

\* The entries of the HashMap grouped by region, each turned into its temp.
report1_temp(records) ==
    {report1_group(g, SelectSeq(records, LAMBDA r : r.region = g)) :
        g \in {records[i].region : i \in 1..Len(records)}}

\* temp.sort_by(descending efficiency_score): the sort is stable and temp
\* is filled in the HashMap's iteration order, so every sequence of the
\* entries with non-increasing scores is a possible outcome.
\* A variant of sort_report1 that sorts ascending.
RECURSIVE sort_report1_ascending(_)
sort_report1_ascending(temp) ==
    IF temp = {} THEN {<<>>}
    ELSE UNION {{<<x>> \o rest : rest \in sort_report1_ascending(temp \ {x})} :
                x \in {y \in temp : \A z \in temp : RLe(y.efficiency_score, z.efficiency_score)}}

RECURSIVE sort_report1(_)
sort_report1(temp) ==
    IF temp = {} THEN {<<>>}
    ELSE UNION {{<<x>> \o rest : rest \in sort_report1(temp \ {x})} :
                x \in {y \in temp : \A z \in temp : RLe(z.efficiency_score, y.efficiency_score)}}

\* The possible results of generate_report1.
generate_report1(records) == sort_report1(report1_temp(records))

(***************************************************************************)
(* Report 2: contractor ranking                                            *)
(***************************************************************************)
MinProjects == 5

DelayHorizon == 90

RiskThreshold == 50

TopContractors == 15

\* A variant of report2_group whose delay factor is not capped at zero.
report2_group_uncapped(contractor, recs) ==
    LET total_cost    == RSum(MapSeq(recs, LAMBDA r : r.contract_cost))
        total_savings == RSum(MapSeq(recs, LAMBDA r : r.cost_savings))
        delays        == FilterMap(MapSeq(recs, LAMBDA r : r.completion_delay_days))
        avg_delay     == calculate_average_i64(delays)
        reliability_index ==
            IF RLt(RZero, total_cost)
            THEN RClamp(RMul(RMul(RSub(RInt(1), RDiv(avg_delay, RInt(DelayHorizon))),
                                  RDiv(total_savings, total_cost)),
                             RInt(100)),
                        RZero, RInt(100))
            ELSE RZero
    IN  [contractor |-> contractor,
         total_cost |-> total_cost,
         num_projects |-> Len(recs),
         avg_delay |-> avg_delay,
         total_savings |-> total_savings,
         reliability_index |-> reliability_index,
         risk_flag |-> IF RLt(reliability_index, RInt(RiskThreshold))
                       THEN "High Risk" ELSE "Low Risk"]

\* The Report2Temp of one contractor group.
report2_group(contractor, recs) ==
    LET total_cost    == RSum(MapSeq(recs, LAMBDA r : r.contract_cost))
        total_savings == RSum(MapSeq(recs, LAMBDA r : r.cost_savings))
        delays        == FilterMap(MapSeq(recs, LAMBDA r : r.completion_delay_days))
        avg_delay     == calculate_average_i64(delays)
        reliability_index ==
            IF RLt(RZero, total_cost)
            THEN RClamp(RMul(RMul(RMaxOf(RSub(RInt(1), RDiv(avg_delay, RInt(DelayHorizon))),
                                         RZero),
                                  RDiv(total_savings, total_cost)),
                             RInt(100)),
                        RZero, RInt(100))
            ELSE RZero
    IN  [contractor |-> contractor,
         total_cost |-> total_cost,
         num_projects |-> Len(recs),
         avg_delay |-> avg_delay,
         total_savings |-> total_savings,
         reliability_index |-> reliability_index,
         risk_flag |-> IF RLt(reliability_index, RInt(RiskThreshold))
                       THEN "High Risk" ELSE "Low Risk"]

\* A variant of report2_stats that also keeps the groups one project short.
report2_stats_loose(records) ==
    {report2_group(c, SelectSeq(records, LAMBDA r : r.contractor = c)) :
        c \in {d \in {records[i].contractor : i \in 1..Len(records)} :
                 ~(Count(records, LAMBDA r : r.contractor = d) < MinProjects - 1)}}

\* The stats of the contractor groups that have enough projects.
report2_stats(records) ==
    {report2_group(c, SelectSeq(records, LAMBDA r : r.contractor = c)) :
        c \in {d \in {records[i].contractor : i \in 1..Len(records)} :
                 ~(Count(records, LAMBDA r : r.contractor = d) < MinProjects)}}

\* A variant of sort_report2 that sorts ascending.
RECURSIVE sort_report2_ascending(_)
sort_report2_ascending(stats) ==
    IF stats = {} THEN {<<>>}
    ELSE UNION {{<<x>> \o rest : rest \in sort_report2_ascending(stats \ {x})} :
                x \in {y \in stats : \A z \in stats : RLe(y.total_cost, z.total_cost)}}

\* stats.sort_by(descending total_cost), stable over the HashMap's order.
RECURSIVE sort_report2(_)
sort_report2(stats) ==
    IF stats = {} THEN {<<>>}
    ELSE UNION {{<<x>> \o rest : rest \in sort_report2(stats \ {x})} :
                x \in {y \in stats : \A z \in stats : RLe(z.total_cost, y.total_cost)}}

\* stats.truncate(TopContractors)
truncate(s, n) == SubSeq(s, 1, IF Len(s) < n THEN Len(s) ELSE n)

\* enumerate(): Rank is the 1-based position.
rank_rows(s) ==
    [i \in 1..Len(s) |->
        [Rank |-> i,
         contractor |-> s[i].contractor,
         total_cost |-> s[i].total_cost,
         num_projects |-> s[i].num_projects,
         avg_delay |-> s[i].avg_delay,
         total_savings |-> s[i].total_savings,
         reliability_index |-> s[i].reliability_index,
         risk_flag |-> s[i].risk_flag]]

\* The possible results of generate_report2.
generate_report2(records) ==
    {rank_rows(truncate(s, TopContractors)) : s \in sort_report2(report2_stats(records))}

(***************************************************************************)
(* Report 3: cost overrun trends                                           *)
(***************************************************************************)
BaselineYear == 2021

\* key.split('|') of the key "year|type": parts[1] is the type_of_work up
\* to its first '|'.
RECURSIVE BeforeBar(_)
BeforeBar(t) ==
    IF t = <<>> \/ t[1] = "|" THEN <<>> ELSE <<t[1]>> \o BeforeBar(Tail(t))

\* The keys of the HashMap grouped by "year|type": the year's numeral has
\* no '|', so two records share a key exactly when they share both fields.
report3_keys(records) ==
    {<<records[i].funding_year, records[i].type_of_work>> : i \in 1..Len(records)}

\* The Report3Temp of one group; key tells apart the groups whose rows read
\* the same.
report3_group(key, recs) ==
    LET savings == [i \in 1..Len(recs) |-> recs[i].cost_savings]
    IN  [key |-> key,
         funding_year |-> key[1],
         type_of_work |-> BeforeBar(key[2]),
         total_projects |-> Len(recs),
         avg_savings |-> calculate_average(savings),
         overrun_rate |-> IF savings # <<>>
                          THEN calculate_percentage(
                                   RInt(Len(SelectSeq(savings, LAMBDA v : RLt(v, RZero)))),
                                   RInt(Len(savings)))
                          ELSE RZero,
         yoy_change |-> RZero]

report3_temp(records) ==
    {report3_group(k, SelectSeq(records,
                                LAMBDA r : <<r.funding_year, r.type_of_work>> = k)) :
        k \in report3_keys(records)}

\* year_type_data at BaselineYear after the first loop: the avg_savings of
\* the group of that type and year inserted last; two groups share a type
\* and year when their type_of_work texts differ after the first '|' only,
\* and then either may be the last.
report3_baselines(temp) ==
    LET types == {x.type_of_work : x \in {y \in temp : y.funding_year = BaselineYear}}
    IN  {b \in [types -> {x.avg_savings : x \in temp}] :
            \A t \in types :
                \E x \in temp : /\ x.funding_year = BaselineYear
                                /\ x.type_of_work = t
                                /\ x.avg_savings = b[t]}

\* The second loop: the change against the type's baseline.
report3_yoy(temp, baseline) ==
    {[x EXCEPT !.yoy_change =
          IF /\ x.type_of_work \in DOMAIN baseline
             /\ x.funding_year # BaselineYear
             /\ baseline[x.type_of_work] # RZero
          THEN RMul(RDiv(RSub(x.avg_savings, baseline[x.type_of_work]),
                         RAbs(baseline[x.type_of_work])),
                    RInt(100))
          ELSE RZero] : x \in temp}

\* A variant of report3_before with avg_savings ascending.
report3_before_ascending(a, b) ==
    IF a.funding_year # b.funding_year
    THEN a.funding_year < b.funding_year
    ELSE RLt(a.avg_savings, b.avg_savings)

\* The comparator of temp.sort_by: year ascending, then avg_savings
\* descending; a sorts strictly before b.
report3_before(a, b) ==
    IF a.funding_year # b.funding_year
    THEN a.funding_year < b.funding_year
    ELSE RLt(b.avg_savings, a.avg_savings)

\* temp.sort_by, stable over the HashMap's order.
RECURSIVE sort_report3(_)
sort_report3(temp) ==
    IF temp = {} THEN {<<>>}
    ELSE UNION {{<<x>> \o rest : rest \in sort_report3(temp \ {x})} :
                x \in {y \in temp : \A z \in temp : ~report3_before(z, y)}}

report3_rows(s) ==
    [i \in 1..Len(s) |->
        [funding_year |-> s[i].funding_year,
         type_of_work |-> s[i].type_of_work,
         total_projects |-> s[i].total_projects,
         avg_savings |-> s[i].avg_savings,
         overrun_rate |-> s[i].overrun_rate,
         yoy_change |-> s[i].yoy_change]]

\* The possible results of generate_report3.
generate_report3(records) ==
    LET temp == report3_temp(records)
    IN  UNION {{report3_rows(s) : s \in sort_report3(report3_yoy(temp, b))} :
               b \in report3_baselines(temp)}

(***************************************************************************)
(* Summary                                                                 *)
(***************************************************************************)
generate_summary(records) ==
    LET unique_contractors ==
            {c \in {records[i].contractor : i \in 1..Len(records)} : c # <<>> /\ c # Unknown}
        unique_provinces ==
            {q \in {records[i].province : i \in 1..Len(records)} : q # <<>>}
        delays == FilterMap(MapSeq(records, LAMBDA r : r.completion_delay_days))
        total_savings == RSum(MapSeq(records, LAMBDA r : r.cost_savings))
    IN  [total_projects |-> Len(records),
         total_contractors |-> Cardinality(unique_contractors),
         total_provinces |-> Cardinality(unique_provinces),
         global_avg_delay |-> RDiv(RRound(RMul(calculate_average_i64(delays), RInt(10))),
                                   RInt(10)),
         total_savings |-> RRound(total_savings)]

(***************************************************************************)
(* Application logic                                                       *)
(***************************************************************************)
Indices(s) == [i \in 1..Len(s) |-> i]

\* The cleaned vector of load_file: the rows clean_record accepts, in order.
load_cleaned(raw_vec) == FilterMap(MapSeq(raw_vec, clean_record))

\* The errors vector of load_file: one entry per row that clean_record
\* rejects and validate_record finds invalid; line 1 of the file is the
\* header, so the row at 1-based position i is "Row i + 1".
load_errors(raw_vec) ==
    LET rejected == SelectSeq(Indices(raw_vec),
                              LAMBDA i : /\ clean_record(raw_vec[i]) = None
                                         /\ ~validate_record(raw_vec[i]).is_valid)
    IN  [k \in 1..Len(rejected) |->
            [row |-> rejected[k] + 1, errors |-> validate_record(raw_vec[rejected[k]]).errors]]

\* The dataset load_file stores: derive, impute, filter.
load_processed(raw_vec) ==
    filter_by_year_range(
        impute_coordinates(MapSeq(load_cleaned(raw_vec), add_derived_fields)),
        FilterStart, FilterEnd)

\* History of load_file: the positions in the file of the rows behind the
\* records of the stored dataset, in order.
load_origin(raw_vec) ==
    SelectSeq(Indices(raw_vec),
              LAMBDA i : /\ clean_record(raw_vec[i]) # None
                         /\ filter_by_year_range(
                                <<add_derived_fields(Unwrap(clean_record(raw_vec[i])))>>,
                                FilterStart, FilterEnd) # <<>>)

\* A variant of load_file that fails when a row of the file is dropped.
load_file_strict ==
    /\ pc = "menu"
    /\ IF csv_file = None \/ Len(load_cleaned(Unwrap(csv_file))) < Len(Unwrap(csv_file))
       THEN /\ pc' = "failed"
            /\ UNCHANGED <<raw_records, processed_data, origin, errors>>
       ELSE /\ raw_records' = Some(Unwrap(csv_file))
            /\ errors' = load_errors(Unwrap(csv_file))
            /\ processed_data' = Some(load_processed(Unwrap(csv_file)))
            /\ origin' = load_origin(Unwrap(csv_file))
            /\ pc' = pc
    /\ UNCHANGED <<csv_file, report1, report2, report3, summary, call, system, transactions>>

\* Menu choice 1.  A missing file makes load_file return the error before
\* it touches raw_records or processed_data, and main returns it.
load_file ==
    /\ pc = "menu"
    /\ IF csv_file = None
       THEN /\ pc' = "failed"
            /\ UNCHANGED <<raw_records, processed_data, origin, errors>>
       ELSE /\ raw_records' = Some(Unwrap(csv_file))
            /\ errors' = load_errors(Unwrap(csv_file))
            /\ processed_data' = Some(load_processed(Unwrap(csv_file)))
            /\ origin' = load_origin(Unwrap(csv_file))
            /\ pc' = pc
    /\ UNCHANGED <<csv_file, report1, report2, report3, summary, call, system, transactions>>

\* A variant of generate_reports that goes on with an empty dataset.
generate_reports_on_empty ==
    /\ pc = "menu"
    /\ IF processed_data = None
       THEN UNCHANGED <<report1, report2, report3, summary>>
       ELSE /\ report1' \in {Some(r) : r \in generate_report1(Unwrap(processed_data))}
            /\ report2' \in {Some(r) : r \in generate_report2(Unwrap(processed_data))}
            /\ report3' \in {Some(r) : r \in generate_report3(Unwrap(processed_data))}
            /\ summary' = Some(generate_summary(Unwrap(processed_data)))
    /\ \E cont \in BOOLEAN : pc' = IF cont THEN "menu" ELSE "done"
    /\ UNCHANGED <<csv_file, raw_records, processed_data, origin, errors, call, system, transactions>>

\* Menu choice 2, then the answer to "Back to Report Selection (Y/N)".
generate_reports ==
    /\ pc = "menu"
    /\ IF processed_data = None \/ Unwrap(processed_data) = <<>>
       THEN UNCHANGED <<report1, report2, report3, summary>>
       ELSE /\ report1' \in {Some(r) : r \in generate_report1(Unwrap(processed_data))}
            /\ report2' \in {Some(r) : r \in generate_report2(Unwrap(processed_data))}
            /\ report3' \in {Some(r) : r \in generate_report3(Unwrap(processed_data))}
            /\ summary' = Some(generate_summary(Unwrap(processed_data)))
    /\ \E cont \in BOOLEAN : pc' = IF cont THEN "menu" ELSE "done"
    /\ UNCHANGED <<csv_file, raw_records, processed_data, origin, errors, call, system, transactions>>

\* Any other menu choice.
invalid_choice ==
    /\ pc = "menu"
    /\ UNCHANGED vars

Next == load_file \/ generate_reports \/ invalid_choice

\* The state main starts the menu loop in, for a set of possible files.
InitWith(files) ==
    /\ csv_file \in {None} \cup {Some(f) : f \in files}
    /\ raw_records = None
    /\ processed_data = None
    /\ origin = <<>>
    /\ errors = <<>>
    /\ report1 = None
    /\ report2 = None
    /\ report3 = None
    /\ summary = None
    /\ pc = "menu"
    /\ system = None
    /\ transactions = 0
    /\ call = [fn |-> "none"]

(***************************************************************************)
(* Input files                                                             *)
(***************************************************************************)
Row(region, year, budget, cost, start, completion, lat, lng, province, contractor, work) ==
    [region |-> region,
     main_island |-> <<"L", "u", "z", "o", "n">>,
     funding_year |-> year,
     approved_budget_for_contract |-> budget,
     contract_cost |-> cost,
     start_date |-> start,
     actual_completion_date |-> completion,
     project_latitude |-> lat,
     project_longitude |-> lng,
     province |-> province,
     contractor |-> contractor,
     type_of_work |-> work]

NCR == <<"N", "C", "R">>

Y2021 == <<"2", "0", "2", "1">>

Y2023 == <<"2", "0", "2", "3">>

\* A row that differs from a complete, valid row only in the four fields
\* validation and required-number parsing read.
LoadRow(region, year, budget, cost) ==
    Row(region, year, budget, cost, <<>>, <<>>, <<>>, <<>>, <<"B">>, <<"A">>, <<"W">>)

LoadRows ==
    { LoadRow(NCR, Y2021, <<"1", ",", "2", "3", "4", ".", "5", "0">>, <<"1", ",", "0", "0", "0">>),
      LoadRow(NCR, Y2023, <<"5", "0", "0">>, <<" ", "7", "5", "0", ".", "2", "5">>),
      LoadRow(NCR, <<"+", "2", "0", "2", "2">>, <<"9">>, <<"9">>),
      LoadRow(<<" ">>, Y2021, <<"9">>, <<"9">>),
      LoadRow(NCR, <<"2", "0", "2", "0">>, <<"9">>, <<"9">>),
      LoadRow(NCR, <<"2", "0", "2", "4">>, <<"9">>, <<"9">>),
      LoadRow(NCR, <<"2", "0", "x", "1">>, <<"9">>, <<"9">>),
      LoadRow(NCR, <<" ", "2", "0", "2", "1">>, <<"9">>, <<"9">>),
      LoadRow(NCR, Y2021, NA, <<"9">>),
      LoadRow(NCR, Y2023, <<"9">>, <<"a", "b", "c">>),
      LoadRow(<<>>, <<>>, <<" ">>, <<>>) }

MaxLoadRows == 3

LoadFiles == SeqsUpTo(LoadRows, MaxLoadRows)

Init == InitWith(LoadFiles)

Spec == Init /\ [][Next]_vars

(***************************************************************************)
(* Properties of loading                                                   *)
(***************************************************************************)
Loaded == raw_records # None /\ processed_data # None

RawRows == Unwrap(raw_records)

Data == Unwrap(processed_data)

RECURSIVE StripZeros(_)
StripZeros(s) == IF Len(s) > 1 /\ s[1] = "0" THEN StripZeros(Tail(s)) ELSE s

\* The text spells an integer of [2021, 2023]: an optional '+', optional
\* leading zeros, then one of the three numerals.
YearTextInRange(s) ==
    StripZeros(IF s # <<>> /\ s[1] = "+" THEN Tail(s) ELSE s)
        \in {Y2021, <<"2", "0", "2", "2">>, Y2023}

\* C1: a row whose FundingYear text is not an integer of [2021, 2023] is
\* found invalid with the error "Invalid FundingYear: <raw text>", that error
\* is in the row's entry of the collected errors, and no record of the
\* loaded dataset comes from the row.
C1_InvalidYearRejected ==
    Loaded =>
        \A i \in 1..Len(RawRows) :
            ~YearTextInRange(RawRows[i].funding_year) =>
                /\ ~validate_record(RawRows[i]).is_valid
                /\ Msg("Invalid FundingYear: ", RawRows[i].funding_year)
                       \in Range(validate_record(RawRows[i]).errors)
                /\ \E e \in Range(errors) :
                       /\ e.row = i + 1
                       /\ Msg("Invalid FundingYear: ", RawRows[i].funding_year) \in Range(e.errors)
                /\ i \notin Range(origin)

\* A loaded file that holds a year below, a year above and a non-numeric
\* year beside a row that was kept.
C1_Witness ==
    /\ Loaded
    /\ Len(RawRows) = 3
    /\ RawRows[1].funding_year = <<"2", "0", "2", "4">>
    /\ RawRows[3].funding_year = <<"2", "0", "x", "1">>
    /\ origin = <<2>>

\* The row passes validation and both required numbers parse.
Qualifies(row) ==
    /\ validate_record(row).is_valid
    /\ validate_number(row.approved_budget_for_contract) # None
    /\ validate_number(row.contract_cost) # None

\* C2: the loaded dataset holds exactly one record per row that passes
\* validation and has a parseable budget and cost, in file order, each
\* carrying its row's region and numbers; Report 1 has at most that many rows
\* and the summary's total_projects is that count.
C2_CountConservation ==
    Loaded =>
        /\ origin = SelectSeq(Indices(RawRows), LAMBDA i : Qualifies(RawRows[i]))
        /\ Len(Data) = Len(origin)
        /\ \A k \in 1..Len(Data) :
               /\ Data[k].region = RawRows[origin[k]].region
               /\ Some(Data[k].funding_year) = ParseI32(RawRows[origin[k]].funding_year)
               /\ Some(Data[k].approved_budget_for_contract)
                      = validate_number(RawRows[origin[k]].approved_budget_for_contract)
               /\ Some(Data[k].contract_cost)
                      = validate_number(RawRows[origin[k]].contract_cost)
        /\ report1 # None => Len(Unwrap(report1)) <= Len(Data)
        /\ summary # None => Unwrap(summary).total_projects = Len(Data)

\* One valid 2021 row, one valid 2023 row and one blank-Region row: a
\* dataset of size 2 and total_projects = 2.
C2_Witness ==
    /\ Loaded
    /\ Len(RawRows) = 3
    /\ Qualifies(RawRows[1]) /\ RawRows[1].funding_year = Y2021
    /\ Qualifies(RawRows[2]) /\ RawRows[2].funding_year = Y2023
    /\ Trim(RawRows[3].region) = <<>>
    /\ Len(Data) = 2
    /\ summary # None /\ Unwrap(summary).total_projects = 2
    /\ report1 # None /\ Len(Unwrap(report1)) = 1

\* C3 as claimed: a row that passes validation but whose budget or cost does
\* not parse is dropped and counted among the collected errors, so that
\* cleaned records + error rows = raw rows.
C3_ParseFailureCounted ==
    Loaded =>
        /\ \A i \in 1..Len(RawRows) :
               validate_record(RawRows[i]).is_valid /\ ~Qualifies(RawRows[i]) =>
                   /\ i \notin Range(origin)
                   /\ \E e \in Range(errors) : e.row = i + 1
        /\ Len(load_cleaned(RawRows)) + Len(errors) = Len(RawRows)

(***************************************************************************)
(* Files for imputation: complete, valid rows that differ in province and  *)
(* coordinates                                                             *)
(***************************************************************************)
ImputeRow(province, lat, lng) ==
    Row(NCR, Y2021, <<"9">>, <<"5">>, <<>>, <<>>, lat, lng, province, <<"A">>, <<"W">>)

Bohol == <<"B", "o", "h", "o", "l">>

Cebu == <<"C", "e", "b", "u">>

\* The row with another Contractor.
WithContractor(contractor, row) == [row EXCEPT !.contractor = contractor]

ImputeRows ==
    { WithContractor(<<" ">>, ImputeRow(Bohol, <<"1", "0", ".", "0">>, <<>>)),
      ImputeRow(Bohol, <<"1", "2", ".", "0">>, <<"1", "2", "4", ".", "5">>),
      ImputeRow(Bohol, <<>>, <<>>),
      ImputeRow(Bohol, NA, <<"1", "2", "3", ".", "5">>),
      WithContractor(<<>>, ImputeRow(Cebu, <<>>, <<>>)),
      WithContractor(<<"B">>, ImputeRow(Cebu, <<>>, <<"1", "2", "1">>)),
      ImputeRow(<<>>, <<>>, <<>>),
      ImputeRow(<<>>, <<"8", ".", "0">>, <<"1", "2", "0">>),
      ImputeRow(<<" ">>, <<>>, <<>>),
      ImputeRow(<<" ">>, <<"7", ".", "0">>, <<>>) }

MaxImputeRows == 3

ImputeFiles == SeqsUpTo(ImputeRows, MaxImputeRows)

InitImpute == InitWith(ImputeFiles)

SpecImpute == InitImpute /\ [][Next]_vars

(***************************************************************************)
(* Properties of imputation                                                *)
(***************************************************************************)
\* The row behind the k-th record of the loaded dataset.
RowOf(k) == RawRows[origin[k]]

\* The coordinates, on one axis, that the file gives for the rows of the
\* dataset whose province is p, in order.
KnownLat(p) ==
    LET peers == SelectSeq(origin, LAMBDA j : RawRows[j].province = p)
    IN  FilterMap(MapSeq(peers, LAMBDA j : validate_number(RawRows[j].project_latitude)))

KnownLng(p) ==
    LET peers == SelectSeq(origin, LAMBDA j : RawRows[j].province = p)
    IN  FilterMap(MapSeq(peers, LAMBDA j : validate_number(RawRows[j].project_longitude)))

\* v is the arithmetic mean of the non-empty sequence s.
IsMeanOf(v, s) == RMul(v, RInt(Len(s))) = RSum(s)

\* C4: a record whose row gives no latitude (longitude) and has a non-blank
\* province holds the mean of the latitudes (longitudes) the file gives for
\* its province, each axis on its own.
C4_ImputedWithProvinceMean ==
    Loaded =>
        \A k \in 1..Len(Data) :
            Trim(RowOf(k).province) # <<>> =>
                /\ (/\ validate_number(RowOf(k).project_latitude) = None
                    /\ KnownLat(RowOf(k).province) # <<>>)
                   => /\ IsSome(Data[k].project_latitude)
                      /\ IsMeanOf(Unwrap(Data[k].project_latitude), KnownLat(RowOf(k).province))
                /\ (/\ validate_number(RowOf(k).project_longitude) = None
                    /\ KnownLng(RowOf(k).province) # <<>>)
                   => /\ IsSome(Data[k].project_longitude)
                      /\ IsMeanOf(Unwrap(Data[k].project_longitude), KnownLng(RowOf(k).province))

\* Latitudes 10.0 and 12.0 known in Bohol: the third Bohol record, whose row
\* gives neither coordinate, gets latitude 11 and the one known longitude.
C4_Witness ==
    /\ Loaded
    /\ Len(Data) = 3
    /\ \A k \in 1..3 : RowOf(k).province = Bohol
    /\ KnownLat(Bohol) = <<RInt(10), RInt(12)>>
    /\ RowOf(3).project_latitude = <<>> /\ RowOf(3).project_longitude = <<>>
    /\ Data[3].project_latitude = Some(RInt(11))
    /\ Data[3].project_longitude = Some(Rat(249, 2))
    /\ Data[1].project_latitude = Some(RInt(10))

\* C5 as claimed: a record whose province is blank keeps every coordinate
\* its row does not give absent, and a record whose province has no known
\* value on an axis keeps that axis absent.
C5_BlankProvinceNotImputed ==
    Loaded =>
        \A k \in 1..Len(Data) :
            /\ Trim(RowOf(k).province) = <<>> =>
                   /\ validate_number(RowOf(k).project_latitude) = None
                          => Data[k].project_latitude = None
                   /\ validate_number(RowOf(k).project_longitude) = None
                          => Data[k].project_longitude = None
            /\ (/\ validate_number(RowOf(k).project_latitude) = None
                /\ KnownLat(RowOf(k).province) = <<>>) => Data[k].project_latitude = None
            /\ (/\ validate_number(RowOf(k).project_longitude) = None
                /\ KnownLng(RowOf(k).province) = <<>>) => Data[k].project_longitude = None

(***************************************************************************)
(* filter_by_year_range applied on its own                                 *)
(***************************************************************************)
\* A processed record of the given funding year and contractor.
YearRecord(year, contractor) ==
    add_derived_fields(
        [region |-> NCR,
         main_island |-> <<"L", "u", "z", "o", "n">>,
         funding_year |-> year,
         approved_budget_for_contract |-> RInt(9),
         contract_cost |-> RInt(5),
         start_date |-> None,
         actual_completion_date |-> None,
         project_latitude |-> None,
         project_longitude |-> None,
         province |-> Bohol,
         contractor |-> contractor,
         type_of_work |-> <<"W">>])

FilterRecords ==
    {YearRecord(y, <<"A">>) : y \in 2020..2024} \cup {YearRecord(2021, <<"B">>)}

MaxFilterLen == 4

FilterBounds ==
    {<<s, e>> : s \in {2020, 2021, 2022}, e \in {2022, 2023, 2024}} \cup {<<2023, 2021>>}

\* main has not started; a call of filter_by_year_range is about to run.
InitFilter ==
    /\ csv_file = None
    /\ raw_records = None
    /\ processed_data = None
    /\ origin = <<>>
    /\ errors = <<>>
    /\ report1 = None
    /\ report2 = None
    /\ report3 = None
    /\ summary = None
    /\ pc = "menu"
    /\ system = None
    /\ transactions = 0
    /\ call \in {[fn |-> "filter_by_year_range",
                  records |-> records,
                  start_year |-> b[1],
                  end_year |-> b[2],
                  returned |-> FALSE,
                  result |-> <<>>] :
                 records \in SeqsUpTo(FilterRecords, MaxFilterLen), b \in FilterBounds}

call_filter_by_year_range ==
    /\ call.fn = "filter_by_year_range"
    /\ ~call.returned
    /\ call' = [call EXCEPT
                  !.returned = TRUE,
                  !.result = filter_by_year_range(call.records, call.start_year, call.end_year)]
    /\ UNCHANGED <<csv_file, raw_records, processed_data, origin, errors,
                   report1, report2, report3, summary, pc,
                   system, transactions>>

NextFilter == call_filter_by_year_range

SpecFilter == InitFilter /\ [][NextFilter]_vars

\* The positions of the records of the call whose year is within its bounds.
KeptPositions ==
    {i \in 1..Len(call.records) :
        /\ call.start_year <= call.records[i].funding_year
        /\ call.records[i].funding_year <= call.end_year}

\* The k-th smallest element of a set of positions.
NthOf(P, k) == CHOOSE i \in P : Cardinality({j \in P : j < i}) = k - 1

\* C6: filter_by_year_range returns exactly the records whose funding_year
\* lies within the given bounds, both inclusive, in their order and
\* unchanged; with bounds [2021, 2023] a 2020 or 2024 record is left out and
\* a 2021 or 2023 record is kept.
C6_FilterExact ==
    (call.fn = "filter_by_year_range" /\ call.returned) =>
        /\ Len(call.result) = Cardinality(KeptPositions)
        /\ \A k \in 1..Len(call.result) :
               call.result[k] = call.records[NthOf(KeptPositions, k)]
        /\ (call.start_year = 2021 /\ call.end_year = 2023) =>
               \A i \in 1..Len(call.records) :
                   /\ call.records[i].funding_year \in {2020, 2024}
                          => call.records[i] \notin Range(call.result)
                   /\ call.records[i].funding_year \in {2021, 2023}
                          => call.records[i] \in Range(call.result)

\* Bounds [2021, 2023] on records of 2024, 2023, 2021 and 2020: the two
\* boundary years are kept, in their order.
C6_Witness ==
    /\ call.fn = "filter_by_year_range" /\ call.returned
    /\ call.start_year = 2021 /\ call.end_year = 2023
    /\ call.records = <<YearRecord(2024, <<"A">>), YearRecord(2023, <<"A">>),
                        YearRecord(2021, <<"B">>), YearRecord(2020, <<"A">>)>>
    /\ call.result = <<YearRecord(2023, <<"A">>), YearRecord(2021, <<"B">>)>>

(***************************************************************************)
(* Files for the contractor ranking: contractors K01, K02, ... whose rows  *)
(* follow one of six profiles                                              *)
(***************************************************************************)
TwoDigits(i) == <<Digits[(i \div 10) + 1], Digits[(i % 10) + 1]>>

ContractorName(i) == <<"K">> \o TwoDigits(i)

ContractorRow(i, budget, cost, start, completion) ==
    Row(NCR, Y2021, budget, cost, start, completion, <<>>, <<>>, Bohol, ContractorName(i), <<"W">>)

Jan01 == <<"2", "0", "2", "1", "-", "0", "1", "-", "0", "1">>

Jan10 == <<"2", "0", "2", "1", "-", "0", "1", "-", "1", "0">>

Jun30 == <<"2", "0", "2", "1", "-", "0", "6", "-", "3", "0">>

Repeat(row, n) == [k \in 1..n |-> row]

\* The profile numbers.
Profiles == 0..5

\* The rows of contractor i under profile q.
ProfileRows(i, q) ==
    CASE q = 0 -> \* one project short, high cost
             Repeat(ContractorRow(i, <<"9">> \o TwoDigits(i), <<"9">> \o TwoDigits(i), <<>>, <<>>), 4)
      [] q = 1 -> \* savings below cost, nine days of delay
             Repeat(ContractorRow(i, <<"2">> \o TwoDigits(i), <<"1">> \o TwoDigits(i), Jan01, Jan10), 5)
      [] q = 2 -> \* no cost at all for the first eleven contractors, a cost of 1 after
             Repeat(ContractorRow(i, <<"5">>, <<Digits[(i \div 12) + 1]>>, <<>>, <<>>), 6)
      [] q = 3 -> \* negative amounts
             Repeat(ContractorRow(i, <<"-", "1">> \o TwoDigits(i), <<"-">> \o TwoDigits(i), <<>>, Jan10), 5)
      [] q = 4 -> \* savings twice the cost and more, no delay known
             Repeat(ContractorRow(i, <<"9">> \o TwoDigits(i), <<"3">> \o TwoDigits(i), <<>>, <<>>), 5)
      [] OTHER -> \* overruns, 180 days of delay where known
             Repeat(ContractorRow(i, <<"1">> \o TwoDigits(i), <<"2">> \o TwoDigits(i), Jan01, Jun30), 4)
             \o Repeat(ContractorRow(i, <<"1">> \o TwoDigits(i), <<"2">> \o TwoDigits(i), Jan01, <<>>), 2)

\* The file of contractors 1..n, contractor i under profile (i + shift) % 6.
RECURSIVE ContractorFile(_, _)
ContractorFile(n, shift) ==
    IF n = 0 THEN <<>>
    ELSE ContractorFile(n - 1, shift) \o ProfileRows(n, (n + shift) % Cardinality(Profiles))

MaxContractors == 20

\* Files of up to three contractors, and files of enough contractors for the
\* report to be cut.
ContractorCounts == (0..3) \cup {MaxContractors - 1, MaxContractors}

ContractorFiles ==
    {ContractorFile(n, shift) : n \in ContractorCounts, shift \in Profiles}

InitContractors == InitWith(ContractorFiles)

SpecContractors == InitContractors /\ [][Next]_vars

(***************************************************************************)
(* Properties of the contractor ranking                                    *)
(***************************************************************************)
Report2Rows == Unwrap(report2)

\* The positions of the dataset's records of one contractor.
ProjectsOf(c) == {k \in 1..Len(Data) : Data[k].contractor = c}

Contractors == {Data[k].contractor : k \in 1..Len(Data)}

QualifyingContractors == {c \in Contractors : Cardinality(ProjectsOf(c)) >= 5}

RankedContractors == {Report2Rows[i].contractor : i \in 1..Len(Report2Rows)}

\* The sum of the values a function takes on a set of positions.
RECURSIVE SumOver(_, _)
SumOver(S, f) ==
    IF S = {} THEN RZero
    ELSE LET k == CHOOSE x \in S : TRUE
         IN  RAdd(f[k], SumOver(S \ {k}, f))

CostOf(c) == SumOver(ProjectsOf(c), [k \in 1..Len(Data) |-> Data[k].contract_cost])

SavingsOf(c) ==
    SumOver(ProjectsOf(c),
            [k \in 1..Len(Data) |->
                RSub(Data[k].approved_budget_for_contract, Data[k].contract_cost)])

\* The mean of the delays the contractor's records have, 0 without any.
MeanDelayOf(c) ==
    LET known == {k \in ProjectsOf(c) : IsSome(Data[k].completion_delay_days)}
    IN  IF known = {} THEN RZero
        ELSE RDiv(SumOver(known, [k \in known |-> RInt(Unwrap(Data[k].completion_delay_days))]),
                  RInt(Cardinality(known)))

\* C7: every row of Report 2 is for a contractor with at least 5 records in
\* the dataset and carries that record count as num_projects, no contractor
\* has two rows, a contractor with exactly 4 records has no row, and a
\* contractor with exactly 5 records has a row unless the report is full.
C7_MinimumFiveProjects ==
    (Loaded /\ report2 # None) =>
        /\ \A i \in 1..Len(Report2Rows) :
               /\ Report2Rows[i].num_projects = Cardinality(ProjectsOf(Report2Rows[i].contractor))
               /\ Report2Rows[i].num_projects >= 5
        /\ \A i, j \in 1..Len(Report2Rows) :
               Report2Rows[i].contractor = Report2Rows[j].contractor => i = j
        /\ \A c \in Contractors :
               /\ Cardinality(ProjectsOf(c)) = 4 => c \notin RankedContractors
               /\ Cardinality(ProjectsOf(c)) = 5 =>
                      c \in RankedContractors \/ Len(Report2Rows) = 15

\* A report beside a contractor of exactly 4 records, with rows of exactly 5
\* and of 6 records.
C7_Witness ==
    /\ Loaded /\ report2 # None
    /\ \E c \in Contractors : Cardinality(ProjectsOf(c)) = 4 /\ c \notin RankedContractors
    /\ \E i \in 1..Len(Report2Rows) : Report2Rows[i].num_projects = 5
    /\ \E i \in 1..Len(Report2Rows) : Report2Rows[i].num_projects = 6

\* C8: Report 2 has min(15, number of qualifying contractors) rows, all for
\* qualifying contractors; row i carries Rank = i and its contractor's summed
\* cost; total_cost does not increase along the rows; and no qualifying
\* contractor left out has a total cost strictly above that of a row.
C8_SortedTopFifteen ==
    (Loaded /\ report2 # None) =>
        /\ Len(Report2Rows) = IF Cardinality(QualifyingContractors) < 15
                              THEN Cardinality(QualifyingContractors) ELSE 15
        /\ RankedContractors \subseteq QualifyingContractors
        /\ \A i \in 1..Len(Report2Rows) :
               /\ Report2Rows[i].Rank = i
               /\ Report2Rows[i].total_cost = CostOf(Report2Rows[i].contractor)
        /\ \A i \in 1..(Len(Report2Rows) - 1) :
               RLe(Report2Rows[i + 1].total_cost, Report2Rows[i].total_cost)
        /\ \A c \in QualifyingContractors \ RankedContractors :
               \A i \in 1..Len(Report2Rows) : ~RLt(Report2Rows[i].total_cost, CostOf(c))

\* More than 15 qualifying contractors: a report of 15 rows whose costs fall
\* strictly somewhere, one qualifying contractor left out.
C8_Witness ==
    /\ Loaded /\ report2 # None
    /\ Cardinality(QualifyingContractors) > 15
    /\ Len(Report2Rows) = 15
    /\ QualifyingContractors \ RankedContractors # {}
    /\ RLt(Report2Rows[15].total_cost, Report2Rows[1].total_cost)

\* clamp(max(0, 1 - avg_delay/90) * (total_savings/total_cost) * 100, 0, 100)
ReliabilityFormula(avg_delay, total_savings, total_cost) ==
    RClamp(RMul(RMul(RMaxOf(RZero, RSub(RInt(1), RDiv(avg_delay, RInt(90)))),
                     RDiv(total_savings, total_cost)),
                RInt(100)),
           RZero, RInt(100))

\* What every row of Report 2 has whatever its cost: the contractor's mean
\* delay and summed savings and cost, an index within [0, 100], and the
\* flag "High Risk" exactly when the index is below 50, "Low Risk" otherwise.
Report2RowSound(row) ==
    /\ row.avg_delay = MeanDelayOf(row.contractor)
    /\ row.total_savings = SavingsOf(row.contractor)
    /\ row.total_cost = CostOf(row.contractor)
    /\ RLe(RZero, row.reliability_index) /\ RLe(row.reliability_index, RInt(100))
    /\ row.risk_flag = IF RLt(row.reliability_index, RInt(50)) THEN "High Risk" ELSE "Low Risk"

CAR == <<"C", "A", "R">>

RegionRow(region, budget, cost, start, completion) ==
    Row(region, Y2021, budget, cost, start, completion, <<>>, <<>>, Bohol, <<"A">>, <<"W">>)

Jan31 == <<"2", "0", "2", "1", "-", "0", "1", "-", "3", "1">>

Visayas == <<"V", "i", "s", "a", "y", "a", "s">>

Mindanao == <<"M", "i", "n", "d", "a", "n", "a", "o">>

\* The row with another MainIsland.
OnIsland(island, row) == [row EXCEPT !.main_island = island]

RegionRows ==
    { RegionRow(NCR, <<"1", "0", "5">>, <<"1", "0", "0">>, Jan01, Jan10),
      OnIsland(Visayas, RegionRow(NCR, <<"6", "0", "0">>, <<"1", "0", "0">>, Jan01, Jan10)),
      RegionRow(NCR, <<"1", "0", "0">>, <<"1", "5", "0">>, Jan01, Jan31),
      RegionRow(NCR, <<"1", "0", "5">>, <<"1", "0", "0">>, Jan10, Jan01),
      RegionRow(NCR, <<"1", "0", "7">>, <<"1", "0", "0">>, <<>>, <<>>),
      RegionRow(CAR, <<"1", "0", "5">>, <<"1", "0", "0">>, Jan01, Jun30),
      RegionRow(CAR, <<"1", "0", "0">>, <<"1", "5", "0">>, <<>>, Jan10),
      OnIsland(Mindanao, RegionRow(CAR, <<"6", "0", "0">>, <<"1", "0", "0">>, Jan10, Jan01)) }

MaxRegionRows == 3

RegionFiles == SeqsUpTo(RegionRows, MaxRegionRows)

InitRegions == InitWith(RegionFiles)

SpecRegions == InitRegions /\ [][Next]_vars

(***************************************************************************)
(* Properties of the regional report                                       *)
(***************************************************************************)
Report1Rows == Unwrap(report1)

\* The positions of the dataset's records of one region.
RecordsOf(g) == {k \in 1..Len(Data) : Data[k].region = g}

SavingsAt(k) == RSub(Data[k].approved_budget_for_contract, Data[k].contract_cost)

\* v is the n-th smallest of the savings of the positions S.
IsNthSmallest(v, n, S) ==
    /\ \E k \in S : SavingsAt(k) = v
    /\ Cardinality({k \in S : RLt(SavingsAt(k), v)}) <= n - 1
    /\ Cardinality({k \in S : RLe(SavingsAt(k), v)}) >= n

\* m is the median of the savings of the positions S: the middle one of an
\* odd number, the mean of the middle two of an even number.
IsMedianSavings(m, S) ==
    LET n == Cardinality(S)
    IN  IF n % 2 = 1
        THEN IsNthSmallest(m, (n + 1) \div 2, S)
        ELSE \E i, j \in S :
                 /\ IsNthSmallest(SavingsAt(i), n \div 2, S)
                 /\ IsNthSmallest(SavingsAt(j), (n \div 2) + 1, S)
                 /\ m = RDiv(RAdd(SavingsAt(i), SavingsAt(j)), RInt(2))

\* The mean of the delays the region's records have, 0 without any.
MeanRegionDelay(g) ==
    LET known == {k \in RecordsOf(g) : IsSome(Data[k].completion_delay_days)}
    IN  IF known = {} THEN RZero
        ELSE RDiv(SumOver(known, [k \in known |-> RInt(Unwrap(Data[k].completion_delay_days))]),
                  RInt(Cardinality(known)))

FirstOf(g) == CHOOSE k \in RecordsOf(g) : \A j \in RecordsOf(g) : k <= j

\* C11: Report 1 has exactly one row per distinct region of the dataset; no
\* row comes after a row of strictly lower efficiency_score; and each row's
\* main_island is that of the first record of its region in dataset order.
C11_OneRowPerRegionRanked ==
    (Loaded /\ report1 # None) =>
        /\ {Report1Rows[i].region : i \in 1..Len(Report1Rows)}
               = {Data[k].region : k \in 1..Len(Data)}
        /\ \A i, j \in 1..Len(Report1Rows) :
               Report1Rows[i].region = Report1Rows[j].region => i = j
        /\ \A i, j \in 1..Len(Report1Rows) :
               RLt(Report1Rows[j].efficiency_score, Report1Rows[i].efficiency_score) => i < j
        /\ \A i \in 1..Len(Report1Rows) :
               Report1Rows[i].main_island = Data[FirstOf(Report1Rows[i].region)].main_island

\* The region with the strictly higher score is first although its records
\* come last in the file, and its island is that of the first of its two
\* records, which are of different islands.
C11_Witness ==
    /\ Loaded /\ report1 # None
    /\ Len(Report1Rows) = 2
    /\ RLt(Report1Rows[2].efficiency_score, Report1Rows[1].efficiency_score)
    /\ Data[1].region = Report1Rows[2].region
    /\ Cardinality(RecordsOf(Report1Rows[1].region)) = 2
    /\ \E k \in RecordsOf(Report1Rows[1].region) :
           Data[k].main_island # Report1Rows[1].main_island

\* The positions of the region's records whose delay is present.
KnownDelays(g) == {k \in RecordsOf(g) : IsSome(Data[k].completion_delay_days)}

\* C12: in every row of Report 1, avg_delay is the mean of the delays that
\* are present among the region's records and high_delay_pct is 100 times
\* the number of present delays above 30 over the number of present delays;
\* both are 0 when the region has no present delay.
C12_DelayFiguresOverPresentDelays ==
    (Loaded /\ report1 # None) =>
        \A i \in 1..Len(Report1Rows) :
            LET known == KnownDelays(Report1Rows[i].region)
                late  == {k \in known : Unwrap(Data[k].completion_delay_days) > 30}
            IN  IF known = {}
                THEN /\ Report1Rows[i].avg_delay = RZero
                     /\ Report1Rows[i].high_delay_pct = RZero
                ELSE /\ Report1Rows[i].avg_delay =
                            RDiv(SumOver(known,
                                         [k \in known |->
                                             RInt(Unwrap(Data[k].completion_delay_days))]),
                                 RInt(Cardinality(known)))
                     /\ Report1Rows[i].high_delay_pct =
                            Rat(100 * Cardinality(late), Cardinality(known))

\* A region of three records, one without a delay, one of more than 30 days
\* and one of less: half of the present delays are high.
C12_Witness ==
    /\ Loaded /\ report1 # None
    /\ Len(Report1Rows) = 1
    /\ Cardinality(RecordsOf(Report1Rows[1].region)) = 3
    /\ Cardinality(KnownDelays(Report1Rows[1].region)) = 2
    /\ Report1Rows[1].high_delay_pct = RInt(50)
    /\ RLt(RInt(30), Report1Rows[1].avg_delay)

(***************************************************************************)
(* Files for the overrun trends: rows of three years and of the types A,   *)
(* B, A|x and A|y, with savings above, at and below zero                   *)
(***************************************************************************)
Y2022 == <<"2", "0", "2", "2">>

TypeA == <<"A">>

TypeB == <<"B">>

TypeAx == <<"A", "|", "x">>

TypeAy == <<"A", "|", "y">>

TypeRow(year, work, budget, cost) ==
    Row(NCR, year, budget, cost, <<>>, <<>>, <<>>, <<>>, Bohol, <<"A">>, work)

TypeRows ==
    { TypeRow(Y2021, TypeA, <<"1", "1", "0">>, <<"1", "0", "0">>),
      TypeRow(Y2021, TypeA, <<"1", "0", "0">>, <<"1", "2", "0">>),
      TypeRow(Y2022, TypeA, <<"1", "3", "0">>, <<"1", "0", "0">>),
      TypeRow(Y2022, TypeB, <<"1", "0", "5">>, <<"1", "0", "0">>),
      TypeRow(Y2021, TypeB, <<"1", "0", "0">>, <<"1", "0", "0">>),
      TypeRow(Y2023, TypeA, <<"1", "0", "0">>, <<"1", "1", "0">>),
      TypeRow(Y2021, TypeAx, <<"1", "2", "0">>, <<"1", "0", "0">>),
      TypeRow(Y2022, TypeAy, <<"1", "4", "0">>, <<"1", "0", "0">>) }

MaxTypeRows == 3

TypeFiles == SeqsUpTo(TypeRows, MaxTypeRows)

InitTypes == InitWith(TypeFiles)

SpecTypes == InitTypes /\ [][Next]_vars

(***************************************************************************)
(* Properties of the overrun trends                                        *)
(***************************************************************************)
Report3Rows == Unwrap(report3)

\* The positions of the dataset's records of one year and type_of_work.
GroupOf(year, work) ==
    {k \in 1..Len(Data) : Data[k].funding_year = year /\ Data[k].type_of_work = work}

\* The mean of the savings of a non-empty set of positions.
MeanSavings(S) ==
    RDiv(SumOver(S, [k \in S |-> RSub(Data[k].approved_budget_for_contract,
                                      Data[k].contract_cost)]),
         RInt(Cardinality(S)))

\* C13: every row of Report 3 for 2021 has yoy_change = 0; every row of
\* another year has yoy_change = (avg_savings - baseline) / |baseline| * 100,
\* where baseline is the mean savings of the dataset's 2021 records of the
\* row's type_of_work, when that group exists and its mean is not 0, and
\* yoy_change = 0 when the dataset has no 2021 record of the row's type or
\* their mean is 0.
C13_YoYAgainstOwnBaseline ==
    (Loaded /\ report3 # None) =>
        \A i \in 1..Len(Report3Rows) :
            LET row  == Report3Rows[i]
                base == GroupOf(2021, row.type_of_work)
            IN  row.yoy_change =
                    IF row.funding_year = 2021 \/ base = {} \/ MeanSavings(base) = RZero
                    THEN RZero
                    ELSE RMul(RDiv(RSub(row.avg_savings, MeanSavings(base)),
                                   RAbs(MeanSavings(base))),
                              RInt(100))

\* The (funding_year, type_of_work) pairs of the dataset.
YearTypePairs == {<<Data[k].funding_year, Data[k].type_of_work>> : k \in 1..Len(Data)}

\* C14: Report 3 has exactly one row per distinct (funding_year,
\* type_of_work) pair of the dataset, carrying the pair's year, its full
\* type_of_work text and the number of records of the pair as
\* total_projects; the total_projects of all rows sum to the size of the
\* dataset.
C14_OneRowPerYearAndType ==
    (Loaded /\ report3 # None) =>
        /\ Len(Report3Rows) = Cardinality(YearTypePairs)
        /\ \A p \in YearTypePairs :
               \E i \in 1..Len(Report3Rows) :
                   /\ Report3Rows[i].funding_year = p[1]
                   /\ Report3Rows[i].type_of_work = p[2]
                   /\ Report3Rows[i].total_projects = Cardinality(GroupOf(p[1], p[2]))
        /\ ISum([i \in 1..Len(Report3Rows) |-> Report3Rows[i].total_projects]) = Len(Data)

\* C15: in Report 3 no row is followed by a row of a smaller funding_year,
\* nor by a row of the same funding_year and a strictly larger avg_savings.
C15_SortedByYearThenSavings ==
    (Loaded /\ report3 # None) =>
        \A i, j \in 1..Len(Report3Rows) :
            i < j =>
                /\ Report3Rows[i].funding_year <= Report3Rows[j].funding_year
                /\ Report3Rows[i].funding_year = Report3Rows[j].funding_year
                       => RLe(Report3Rows[j].avg_savings, Report3Rows[i].avg_savings)

\* Three rows from a file in the opposite order: the record of the later
\* year and lower savings first, the record of the earlier year last.
C15_Witness ==
    /\ Loaded /\ report3 # None
    /\ Len(Report3Rows) = 3 /\ Len(Data) = 3
    /\ Report3Rows[1].funding_year < Report3Rows[2].funding_year
    /\ Report3Rows[2].funding_year = Report3Rows[3].funding_year
    /\ RLt(Report3Rows[3].avg_savings, Report3Rows[2].avg_savings)
    /\ Data[1].type_of_work = Report3Rows[3].type_of_work
    /\ Data[1].funding_year = Report3Rows[3].funding_year
    /\ Data[3].funding_year = Report3Rows[1].funding_year

(***************************************************************************)
(* Properties of the summary                                               *)
(***************************************************************************)
\* The text is empty or whitespace only.
Blank(s) == \A i \in 1..Len(s) : IsWhitespace(s[i])

\* C16: the summary has total_projects = the number of records of the
\* dataset, total_contractors = the number of distinct contractor values
\* that are neither blank nor "Unknown", and total_provinces = the number
\* of distinct province values that are not blank, a whitespace-only
\* province being blank.
C16_SummaryCounts ==
    (Loaded /\ summary # None) =>
        /\ Unwrap(summary).total_projects = Len(Data)
        /\ Unwrap(summary).total_contractors =
               Cardinality({c \in {Data[k].contractor : k \in 1..Len(Data)} :
                              ~Blank(c) /\ c # Unknown})
        /\ Unwrap(summary).total_provinces =
               Cardinality({q \in {Data[k].province : k \in 1..Len(Data)} : ~Blank(q)})

(***************************************************************************)
(* Properties of report generation as a whole                              *)
(***************************************************************************)
\* C17: a step that leaves the dataset as it is and finds a report already
\* generated leaves that report with the same sequence of rows, for each of
\* the three reports: generating again gives the same rows in the same
\* order.
C17_GeneratorsRepeatable ==
    [][processed_data' = processed_data =>
          /\ (report1 # None /\ report1' # None) => report1' = report1
          /\ (report2 # None /\ report2' # None) => report2' = report2
          /\ (report3 # None /\ report3' # None) => report3' = report3]_vars

\* No dataset is loaded, or the loaded dataset is empty.
NoData == processed_data = None \/ Unwrap(processed_data) = <<>>

NoOutput == report1 = None /\ report2 = None /\ report3 = None /\ summary = None

AllOutputs == report1 # None /\ report2 # None /\ report3 # None /\ summary # None

\* C18: a step taken at the menu without data never writes a report or the
\* summary and never fails unless it is the load of a missing file; when it
\* is a report request that ends the run, it changes nothing but pc, and
\* when it leaves the menu open, the outputs are still unwritten; and a
\* report request made with data, whatever came before it, leaves all three
\* reports and the summary written.
C18_RequestWithoutData ==
    [][/\ (pc = "menu" /\ NoData) =>
              /\ NoOutput /\ NoOutput'
              /\ pc' = "failed" => csv_file = None
              /\ pc' = "done" =>
                     UNCHANGED <<csv_file, raw_records, processed_data, origin, errors, call>>
       /\ (pc = "menu" /\ ~NoData /\ pc' = "done") => AllOutputs']_vars

\* A run that ended on a report request although the file was loaded: none
\* of its rows was kept, and nothing was written.
C18_Witness ==
    /\ pc = "done"
    /\ Loaded /\ RawRows # <<>> /\ Data = <<>>
    /\ NoOutput

(***************************************************************************)
(* Properties of failure                                                   *)
(***************************************************************************)
\* C19: a step fails only when the file is missing, and then it changes
\* nothing but pc; no step follows a failure, and a failed run has loaded
\* nothing and written nothing.  With the file present no step fails, and a
\* step that sets raw_records sets it to the rows of the file, stores a
\* dataset and stays at the menu, whatever rows fail validation or parsing.
C19_OnlyMissingFileIsFatal ==
    [][/\ pc # "failed"
       /\ pc' = "failed" =>
              /\ csv_file = None
              /\ UNCHANGED <<csv_file, raw_records, processed_data, origin, errors,
                             report1, report2, report3, summary, call>>
              /\ raw_records' = None /\ processed_data' = None /\ NoOutput'
       /\ csv_file # None =>
              /\ pc' # "failed"
              /\ raw_records' # raw_records =>
                     /\ raw_records' = csv_file
                     /\ processed_data' # None
                     /\ pc' = "menu"]_vars

\* The run has failed.
C19_Witness ==
    /\ pc = "failed"
    /\ csv_file = None
    /\ raw_records = None /\ processed_data = None
    /\ NoOutput

(***************************************************************************)
(* validate_record on its own: a call on any combination of present and    *)
(* blank required fields                                                   *)
(***************************************************************************)
RequiredTexts == {<<"9">>, <<>>, <<" ">>, NA}

ValidateRecords ==
    {[LoadRow(region, year, budget, cost) EXCEPT !.main_island = island] :
        region \in {NCR, <<>>, <<" ">>},
        island \in {Visayas, <<>>, <<"\t">>},
        year \in {Y2021, <<"2", "0", "2", "0">>, <<"2", "0", "x", "1">>, <<>>,
                  <<"+", "2", "0", "2", "3">>, <<" ", "2", "0", "2", "1">>},
        budget \in RequiredTexts,
        cost \in RequiredTexts}

\* main has not started; a call of validate_record is about to run.
InitValidate ==
    /\ csv_file = None
    /\ raw_records = None
    /\ processed_data = None
    /\ origin = <<>>
    /\ errors = <<>>
    /\ report1 = None
    /\ report2 = None
    /\ report3 = None
    /\ summary = None
    /\ pc = "menu"
    /\ system = None
    /\ transactions = 0
    /\ call \in {[fn |-> "validate_record",
                  record |-> record,
                  returned |-> FALSE,
                  result |-> [is_valid |-> FALSE, errors |-> <<>>]] :
                 record \in ValidateRecords}

call_validate_record ==
    /\ call.fn = "validate_record"
    /\ ~call.returned
    /\ call' = [call EXCEPT !.returned = TRUE, !.result = validate_record(call.record)]
    /\ UNCHANGED <<csv_file, raw_records, processed_data, origin, errors,
                   report1, report2, report3, summary, pc,
                   system, transactions>>

NextValidate == call_validate_record

SpecValidate == InitValidate /\ [][NextValidate]_vars

\* The message of a rule when the rule is violated, nothing otherwise.
IfViolated(violated, message) == IF violated THEN <<message>> ELSE <<>>

\* C20: the errors validate_record returns are the messages of the rules
\* the record violates, one each, in the order region, main_island,
\* funding_year, approved budget, contract cost, whatever other rules are
\* violated; and is_valid is true exactly when there is none.
C20_RulesIndependent ==
    (call.fn = "validate_record" /\ call.returned) =>
        /\ call.result.errors =
               IfViolated(Blank(call.record.region), Msg("Missing Region", <<>>))
               \o IfViolated(Blank(call.record.main_island), Msg("Missing MainIsland", <<>>))
               \o IfViolated(~YearTextInRange(call.record.funding_year),
                             Msg("Invalid FundingYear: ", call.record.funding_year))
               \o IfViolated(Blank(call.record.approved_budget_for_contract),
                             Msg("Missing ApprovedBudgetForContract", <<>>))
               \o IfViolated(Blank(call.record.contract_cost),
                             Msg("Missing ContractCost", <<>>))
        /\ call.result.is_valid <=> call.result.errors = <<>>

\* A record that violates all five rules: five messages, in order.
C20_Witness ==
    /\ call.fn = "validate_record" /\ call.returned
    /\ ~call.result.is_valid
    /\ call.result.errors =
           <<Msg("Missing Region", <<>>), Msg("Missing MainIsland", <<>>),
             Msg("Invalid FundingYear: ", <<"2", "0", "x", "1">>),
             Msg("Missing ApprovedBudgetForContract", <<>>),
             Msg("Missing ContractCost", <<>>)>>

(***************************************************************************)
(* validate_number on its own: a call on a short text of digits, commas,   *)
(* points, signs and spaces                                                *)
(***************************************************************************)
NumberChars == {"1", "5", ",", ".", " ", "-"}

MaxNumberLen == 4

Grouped1234_50 == <<"1", ",", "2", "3", "4", ".", "5", "0">>

NumberTexts ==
    SeqsUpTo(NumberChars, MaxNumberLen)
    \cup {NA, Grouped1234_50, <<" ">> \o Grouped1234_50 \o <<" ">>,
          <<" ", "\t">>, <<"N", "/", "A", " ">>, <<"x">>}

\* main has not started; a call of validate_number is about to run.
InitNumber ==
    /\ csv_file = None
    /\ raw_records = None
    /\ processed_data = None
    /\ origin = <<>>
    /\ errors = <<>>
    /\ report1 = None
    /\ report2 = None
    /\ report3 = None
    /\ summary = None
    /\ pc = "menu"
    /\ system = None
    /\ transactions = 0
    /\ call \in {[fn |-> "validate_number",
                  value |-> value,
                  returned |-> FALSE,
                  result |-> None] : value \in NumberTexts}

call_validate_number ==
    /\ call.fn = "validate_number"
    /\ ~call.returned
    /\ call' = [call EXCEPT !.returned = TRUE, !.result = validate_number(call.value)]
    /\ UNCHANGED <<csv_file, raw_records, processed_data, origin, errors,
                   report1, report2, report3, summary, pc,
                   system, transactions>>

NextNumber == call_validate_number

SpecNumber == InitNumber /\ [][NextNumber]_vars

\* The text without its commas and without the whitespace around it.
Bare(s) ==
    LET t    == SelectSeq(s, LAMBDA c : c # ",")
        inks == {i \in 1..Len(t) : ~IsWhitespace(t[i])}
    IN  IF inks = {} THEN <<>>
        ELSE SubSeq(t, CHOOSE i \in inks : \A j \in inks : i <= j,
                       CHOOSE i \in inks : \A j \in inks : j <= i)

\* A plain decimal numeral: an optional '-', digits, optionally '.' and digits.
IsNumeral(t) ==
    \E neg \in {0, 1} : \E p \in (neg + 1)..Len(t) :
        /\ neg = 1 => t[1] = "-"
        /\ \A i \in (neg + 1)..p : IsDigit(t[i])
        /\ p < Len(t) => (t[p + 1] = "." /\ p + 1 < Len(t))
        /\ \A i \in (p + 2)..Len(t) : IsDigit(t[i])

\* The value of a plain decimal numeral, digit by digit.
NumeralValue(t) ==
    LET neg   == t[1] = "-"
        point == IF \E i \in 1..Len(t) : t[i] = "."
                 THEN CHOOSE i \in 1..Len(t) : t[i] = "." ELSE Len(t) + 1
        whole == SumOver(1..Len(t), [i \in 1..Len(t) |->
                                        IF IsDigit(t[i]) /\ i < point
                                        THEN RInt(DigitVal(t[i]) * Pow10(point - 1 - i))
                                        ELSE RZero])
        part  == SumOver(1..Len(t), [i \in 1..Len(t) |->
                                        IF IsDigit(t[i]) /\ i > point
                                        THEN Rat(DigitVal(t[i]), Pow10(i - point))
                                        ELSE RZero])
    IN  IF neg THEN RSub(RZero, RAdd(whole, part)) ELSE RAdd(whole, part)

\* C21: validate_number gives absent for a blank text and for "N/A", and
\* for a text that is a decimal numeral once its commas and the whitespace
\* around it are removed it gives that numeral's value: "1,234.50" gives
\* 1234.50.
C21_SeparatorsAndBlanks ==
    (call.fn = "validate_number" /\ call.returned) =>
        /\ (Blank(call.value) \/ call.value = NA) => call.result = None
        /\ IsNumeral(Bare(call.value)) =>
               call.result = Some(NumeralValue(Bare(call.value)))

\* "1,234.50" was given and 1234.50 came back.
C21_Witness ==
    /\ call.fn = "validate_number" /\ call.returned
    /\ call.value = Grouped1234_50
    /\ call.result = Some(Rat(12345, 10))

(***************************************************************************)
(* clean_record on its own: a call on a row whose optional fields, or      *)
(* whose contractor, type of work and budget, take any of a few texts      *)
(***************************************************************************)
Jan5Short == <<"2", "0", "2", "1", "-", "1", "-", "5">>

DateTexts ==
    {<<>>, <<" ">>, NA, Jan01, Jan10, Jan5Short, <<" ">> \o Jan01, Jan01 \o <<" ">>,
     <<"2", "0", "2", "1", "-", "0", "2", "-", "3", "0">>,
     <<"0", "1", "/", "1", "0", "/", "2", "0", "2", "1">>}

CoordinateTexts ==
    {<<>>, <<"\t">>, NA, <<"x">>, <<"1", "2", ".", "5">>, <<" ", "-", "7", " ">>,
     <<"1", ".", "2", ".", "3">>}

NameTexts ==
    {<<>>, <<" ">>, <<"\t", " ">>, <<"A">>, <<" ", "A", " ">>, Unknown, TypeAx}

CleanRecords ==
    {Row(NCR, Y2021, <<"9">>, <<"9">>, start, completion, lat, lng, <<"B">>, <<"A">>, <<"W">>) :
        start \in DateTexts, completion \in DateTexts,
        lat \in CoordinateTexts, lng \in CoordinateTexts}
    \cup
    {Row(NCR, Y2021, budget, <<"9">>, <<>>, <<>>, <<>>, <<>>, <<"B">>, contractor, work) :
        budget \in {<<"9">>, NA, <<>>},
        contractor \in NameTexts, work \in NameTexts}

\* main has not started; a call of clean_record is about to run.
InitClean ==
    /\ csv_file = None
    /\ raw_records = None
    /\ processed_data = None
    /\ origin = <<>>
    /\ errors = <<>>
    /\ report1 = None
    /\ report2 = None
    /\ report3 = None
    /\ summary = None
    /\ pc = "menu"
    /\ system = None
    /\ transactions = 0
    /\ call \in {[fn |-> "clean_record",
                  record |-> record,
                  returned |-> FALSE,
                  result |-> None] : record \in CleanRecords}

call_clean_record ==
    /\ call.fn = "clean_record"
    /\ ~call.returned
    /\ call' = [call EXCEPT !.returned = TRUE, !.result = clean_record(call.record)]
    /\ UNCHANGED <<csv_file, raw_records, processed_data, origin, errors,
                   report1, report2, report3, summary, pc,
                   system, transactions>>

NextClean == call_clean_record

SpecClean == InitClean /\ [][NextClean]_vars

\* A text of the shape YYYY-MM-DD: four digits, '-', two digits, '-', two
\* digits.
IsYMD(s) ==
    /\ Len(s) = 10
    /\ s[5] = "-" /\ s[8] = "-"
    /\ \A i \in {1, 2, 3, 4, 6, 7, 9, 10} : IsDigit(s[i])

\* A cleaned date field is absent when its text is blank, "N/A" or not of
\* the shape YYYY-MM-DD.
DateAbsentWhenUnreadable(text, field) ==
    (Blank(text) \/ text = NA \/ ~IsYMD(text)) => field = None

\* A cleaned coordinate is absent when its text is blank, "N/A" or no
\* numeral.
CoordinateAbsentWhenUnreadable(text, field) ==
    (Blank(text) \/ text = NA \/ ~IsNumeral(Bare(text))) => field = None

\* C22: a row that passes validation and has a parseable budget and cost
\* is cleaned whatever its start date, completion date, latitude and
\* longitude texts are; a date text that is blank, "N/A" or not of the shape
\* YYYY-MM-DD becomes absent, and a coordinate text that is blank, "N/A" or
\* not numeric becomes absent.
C22_OptionalFieldsNeverReject ==
    (call.fn = "clean_record" /\ call.returned /\ Qualifies(call.record)) =>
        /\ call.result # None
        /\ DateAbsentWhenUnreadable(call.record.start_date,
                                    Unwrap(call.result).start_date)
        /\ DateAbsentWhenUnreadable(call.record.actual_completion_date,
                                    Unwrap(call.result).actual_completion_date)
        /\ CoordinateAbsentWhenUnreadable(call.record.project_latitude,
                                          Unwrap(call.result).project_latitude)
        /\ CoordinateAbsentWhenUnreadable(call.record.project_longitude,
                                          Unwrap(call.result).project_longitude)

\* The cleaned text of a name field: "Unknown" for a blank raw text, the
\* raw text otherwise.
NameOf(raw) == IF Blank(raw) THEN Unknown ELSE raw

\* C23: in every CleanedRecord the contractor and the type_of_work are not
\* blank; each is "Unknown" when the raw text is empty or whitespace-only
\* and the raw text, untrimmed, otherwise.
C23_NamesNeverBlank ==
    (call.fn = "clean_record" /\ call.returned /\ call.result # None) =>
        /\ ~Blank(Unwrap(call.result).contractor)
        /\ ~Blank(Unwrap(call.result).type_of_work)
        /\ Unwrap(call.result).contractor = NameOf(call.record.contractor)
        /\ Unwrap(call.result).type_of_work = NameOf(call.record.type_of_work)

\* A whitespace-only contractor became "Unknown" next to a type of work
\* that was kept with the spaces around it.
C23_Witness ==
    /\ call.fn = "clean_record" /\ call.returned /\ call.result # None
    /\ call.record.contractor = <<"\t", " ">>
    /\ Unwrap(call.result).contractor = Unknown
    /\ call.record.type_of_work = <<" ", "A", " ">>
    /\ Unwrap(call.result).type_of_work = <<" ", "A", " ">>

(***************************************************************************)
(* add_derived_fields on its own: a call on a cleaned record               *)
(***************************************************************************)
Day(y, m, d) == [y |-> y, m |-> m, d |-> d]

CleanedDates ==
    {None, Some(Day(2020, 2, 28)), Some(Day(2020, 12, 31)), Some(Day(2021, 1, 1)),
     Some(Day(2021, 1, 31)), Some(Day(2021, 3, 1))}

CleanedAmounts == {RZero, Rat(1, 4), RInt(100), Rat(12345, 10)}

CleanedRecords ==
    {[region |-> NCR,
      main_island |-> Visayas,
      funding_year |-> year,
      approved_budget_for_contract |-> budget,
      contract_cost |-> cost,
      start_date |-> start,
      actual_completion_date |-> completion,
      project_latitude |-> lat,
      project_longitude |-> None,
      province |-> <<"B">>,
      contractor |-> contractor,
      type_of_work |-> TypeAx] :
        year \in {MinYear, MaxYear},
        budget \in CleanedAmounts, cost \in CleanedAmounts,
        start \in CleanedDates, completion \in CleanedDates,
        lat \in {None, Some(Rat(21, 2))},
        contractor \in {Unknown, <<"A">>}}

\* main has not started; a call of add_derived_fields is about to run.
InitDerive ==
    /\ csv_file = None
    /\ raw_records = None
    /\ processed_data = None
    /\ origin = <<>>
    /\ errors = <<>>
    /\ report1 = None
    /\ report2 = None
    /\ report3 = None
    /\ summary = None
    /\ pc = "menu"
    /\ system = None
    /\ transactions = 0
    /\ call \in {[fn |-> "add_derived_fields",
                  record |-> record,
                  returned |-> FALSE,
                  result |-> None] : record \in CleanedRecords}

call_add_derived_fields ==
    /\ call.fn = "add_derived_fields"
    /\ ~call.returned
    /\ call' = [call EXCEPT !.returned = TRUE,
                            !.result = Some(add_derived_fields(call.record))]
    /\ UNCHANGED <<csv_file, raw_records, processed_data, origin, errors,
                   report1, report2, report3, summary, pc,
                   system, transactions>>

NextDerive == call_add_derived_fields

SpecDerive == InitDerive /\ [][NextDerive]_vars

\* The days of the years from 2000 up to, not including, y.
RECURSIVE DaysOfYearsBefore(_)
DaysOfYearsBefore(y) ==
    IF y <= 2000 THEN 0
    ELSE DaysOfYearsBefore(y - 1) + (IF IsLeap(y - 1) THEN 366 ELSE 365)

\* The days of the months of year y before month m.
RECURSIVE DaysOfMonthsBefore(_, _)
DaysOfMonthsBefore(y, m) ==
    IF m <= 1 THEN 0 ELSE DaysOfMonthsBefore(y, m - 1) + DaysInMonth(y, m - 1)

\* The date's position in the calendar, counted day by day from 2000-01-01.
CalendarDay(date) ==
    DaysOfYearsBefore(date.y) + DaysOfMonthsBefore(date.y, date.m) + date.d

CleanedFields ==
    {"region", "main_island", "funding_year", "approved_budget_for_contract",
     "contract_cost", "start_date", "actual_completion_date", "project_latitude",
     "project_longitude", "province", "contractor", "type_of_work"}

\* C24: in the ProcessedRecord made from a cleaned record, cost_savings
\* plus contract_cost is the approved budget; completion_delay_days is
\* present exactly when both dates are, and is then the number of days from
\* the start date to the completion date, negative when completion comes
\* first; every field of the cleaned record is carried over unchanged.
C24_DerivedFields ==
    (call.fn = "add_derived_fields" /\ call.returned) =>
        LET in  == call.record
            out == Unwrap(call.result)
        IN  /\ RAdd(out.cost_savings, in.contract_cost) = in.approved_budget_for_contract
            /\ RLt(in.approved_budget_for_contract, in.contract_cost)
                   <=> RLt(out.cost_savings, RZero)
            /\ IsSome(out.completion_delay_days)
                   <=> (IsSome(in.start_date) /\ IsSome(in.actual_completion_date))
            /\ IsSome(out.completion_delay_days) =>
                   Unwrap(out.completion_delay_days) =
                       CalendarDay(Unwrap(in.actual_completion_date))
                       - CalendarDay(Unwrap(in.start_date))
            /\ \A f \in CleanedFields : out[f] = in[f]
            /\ DOMAIN out = CleanedFields \cup {"cost_savings", "completion_delay_days"}

\* An overrun of 1234.25 on a project that was completed 307 days before
\* its start date, across the leap day of 2020.
C24_Witness ==
    /\ call.fn = "add_derived_fields" /\ call.returned
    /\ call.record.approved_budget_for_contract = Rat(1, 4)
    /\ call.record.contract_cost = Rat(12345, 10)
    /\ Unwrap(call.result).cost_savings = Rat(-123425, 100)
    /\ call.record.start_date = Some(Day(2020, 12, 31))
    /\ call.record.actual_completion_date = Some(Day(2020, 2, 28))
    /\ Unwrap(call.result).completion_delay_days = Some(-307)

(***************************************************************************)
(* The formatting functions on their own: a call of format_with_commas on  *)
(* a digit text, or a call of format_number on a value and a number of     *)
(* decimals                                                                *)
(***************************************************************************)
MaxDigits == 6

DigitTexts ==
    {s \in SeqsUpTo({"0", "1", "9"}, MaxDigits) : s # <<>>}

FormatValues ==
    {Rat(12345675, 10), Rat(-12345675, 10), RZero, Rat(1, 2), Rat(-1, 2), Rat(5, 2),
     Rat(-5, 2), Rat(201, 200), Rat(-201, 200), Rat(1, 8), Rat(999995, 1000),
     Rat(-999995, 1000), Rat(1999999, 2), RInt(1000), Rat(-1234, 100), Rat(4, 1000),
     Rat(-4, 1000), Rat(15, 100), Rat(123456, 1000), Rat(-2499, 1000)}

FormatDecimals == {0, 1, 2}

\* main has not started; a call of a formatting function is about to run.
InitFormat ==
    /\ csv_file = None
    /\ raw_records = None
    /\ processed_data = None
    /\ origin = <<>>
    /\ errors = <<>>
    /\ report1 = None
    /\ report2 = None
    /\ report3 = None
    /\ summary = None
    /\ pc = "menu"
    /\ system = None
    /\ transactions = 0
    /\ call \in {[fn |-> "format_with_commas",
                  num_str |-> sign \o digits,
                  returned |-> FALSE,
                  result |-> <<>>] : sign \in {<<>>, <<"-">>}, digits \in DigitTexts}
                \cup
                {[fn |-> "format_number",
                  value |-> value,
                  decimals |-> decimals,
                  returned |-> FALSE,
                  result |-> <<>>] : value \in FormatValues, decimals \in FormatDecimals}

call_format_with_commas ==
    /\ call.fn = "format_with_commas"
    /\ ~call.returned
    /\ call' = [call EXCEPT !.returned = TRUE,
                            !.result = format_with_commas(call.num_str)]
    /\ UNCHANGED <<csv_file, raw_records, processed_data, origin, errors,
                   report1, report2, report3, summary, pc,
                   system, transactions>>

call_format_number ==
    /\ call.fn = "format_number"
    /\ ~call.returned
    /\ call' = [call EXCEPT !.returned = TRUE,
                            !.result = format_number(call.value, call.decimals)]
    /\ UNCHANGED <<csv_file, raw_records, processed_data, origin, errors,
                   report1, report2, report3, summary, pc,
                   system, transactions>>

NextFormat == call_format_with_commas \/ call_format_number

SpecFormat == InitFormat /\ [][NextFormat]_vars

\* The text without a '-' in front.
Unsigned(s) == IF s # <<>> /\ s[1] = "-" THEN Tail(s) ELSE s

\* The part of a text before its '.', all of it when there is none.
IntegerPart(s) ==
    SubSeq(s, 1, Cardinality({i \in 1..Len(s) : \A j \in 1..i : s[j] # "."}))

\* The part of a text from its '.' on, empty when there is none.
FractionPart(s) == SubSeq(s, Len(IntegerPart(s)) + 1, Len(s))

\* Commas stand exactly at every fourth place counted from the right, and
\* not in front: a first group of 1 to 3 digits, then groups of 3.
GroupedByThree(body) ==
    /\ \A i \in 1..Len(body) : (body[i] = ",") <=> ((Len(body) - i + 1) % 4 = 0)
    /\ body # <<>> => body[1] # ","

\* C25: format_with_commas keeps a '-' in front as it is, with no ','
\* directly after it, and puts a ',' exactly every 3 digits counted from
\* the right of the digits: without the commas the result is the input, the
\* first group has 1 to 3 digits and every later group 3.  In the result of
\* format_number the integer part is grouped so and the part from the '.'
\* on is the '.' and the requested number of digits, without a ','.
C25_GroupsOfThree ==
    /\ (call.fn = "format_with_commas" /\ call.returned) =>
           /\ SelectSeq(call.result, LAMBDA c : c # ",") = call.num_str
           /\ (call.result[1] = "-") <=> (call.num_str[1] = "-")
           /\ GroupedByThree(Unsigned(call.result))
           /\ AllDigits(SelectSeq(Unsigned(call.result), LAMBDA c : c # ","))
    /\ (call.fn = "format_number" /\ call.returned) =>
           /\ GroupedByThree(Unsigned(IntegerPart(call.result)))
           /\ FractionPart(call.result) =
                  IF call.decimals = 0 THEN <<>>
                  ELSE <<".">> \o SubSeq(FractionPart(call.result), 2, call.decimals + 1)
           /\ Len(FractionPart(call.result)) =
                  IF call.decimals = 0 THEN 0 ELSE call.decimals + 1
           /\ AllDigits(Tail(FractionPart(call.result) \o <<"0">>))

\* -109001 came back as -109,001: the sign, a group of three, a group of
\* three.
C25_Witness ==
    /\ call.fn = "format_with_commas" /\ call.returned
    /\ call.num_str = <<"-", "1", "0", "9", "0", "0", "1">>
    /\ call.result = <<"-", "1", "0", "9", ",", "0", "0", "1">>

\* The value a formatted number reads as, its commas put aside.
ValueRead(s) == NumeralValue(SelectSeq(s, LAMBDA c : c # ","))

\* The distance between two values.
Distance(a, b) == RAbs(RSub(a, b))

\* C26: format_number(value, decimals) writes a plain numeral with exactly
\* decimals digits after the point (no point for 0 decimals) that reads as
\* value rounded to that many decimals, a value halfway between two
\* neighbours going to the one of larger magnitude, for positive and
\* negative values alike: 1234567.5 gives "1,234,567.50" with 2 decimals and
\* "1,234,568" with 0.
C26_RoundedHalfUp ==
    (call.fn = "format_number" /\ call.returned) =>
        LET half == Rat(1, 2 * Pow10(call.decimals))
            read == ValueRead(call.result)
        IN  /\ IsNumeral(SelectSeq(call.result, LAMBDA c : c # ","))
            /\ Len(FractionPart(call.result)) =
                   IF call.decimals = 0 THEN 0 ELSE call.decimals + 1
            /\ RLe(Distance(read, call.value), half)
            /\ Distance(read, call.value) = half => RLt(RAbs(call.value), RAbs(read))
            /\ (call.value = Rat(12345675, 10) /\ call.decimals = 2) =>
                   call.result = <<"1", ",", "2", "3", "4", ",", "5", "6", "7", ".", "5", "0">>
            /\ (call.value = Rat(12345675, 10) /\ call.decimals = 0) =>
                   call.result = <<"1", ",", "2", "3", "4", ",", "5", "6", "8">>

\* 1234567.5 was written with no decimals, as 1,234,568.
C26_Witness ==
    /\ call.fn = "format_number" /\ call.returned
    /\ call.value = Rat(12345675, 10)
    /\ call.decimals = 0
    /\ call.result = <<"1", ",", "2", "3", "4", ",", "5", "6", "8">>

(***************************************************************************)
(* impute_coordinates on its own: a call on a short dataset                *)
(***************************************************************************)
\* A processed record of a province with the given coordinates; the other
\* fields differ from record to record.
Located(province, lat, lng) ==
    add_derived_fields(
        [region |-> IF lat = None THEN NCR ELSE <<"R", "2">>,
         main_island |-> Visayas,
         funding_year |-> IF lng = None THEN MinYear ELSE MaxYear,
         approved_budget_for_contract |-> RInt(100 + Len(province)),
         contract_cost |-> IF lat = None THEN RInt(150) ELSE Rat(1, 4),
         start_date |-> IF lng = None THEN None ELSE Some(Day(2021, 1, 31)),
         actual_completion_date |-> Some(Day(2021, 3, 1)),
         project_latitude |-> lat,
         project_longitude |-> lng,
         province |-> province,
         contractor |-> IF lat = None THEN Unknown ELSE <<"A">>,
         type_of_work |-> TypeAx])

LocatedRecords ==
    {Located(province, lat, lng) :
        province \in {<<>>, Bohol},
        lat \in {None, Some(RInt(10)), Some(RInt(12))},
        lng \in {None, Some(Rat(2491, 20))}}
    \cup {Located(Cebu, None, None), Located(Cebu, Some(RInt(11)), None)}

MaxLocated == 3

\* main has not started; a call of impute_coordinates is about to run.
InitLocated ==
    /\ csv_file = None
    /\ raw_records = None
    /\ processed_data = None
    /\ origin = <<>>
    /\ errors = <<>>
    /\ report1 = None
    /\ report2 = None
    /\ report3 = None
    /\ summary = None
    /\ pc = "menu"
    /\ system = None
    /\ transactions = 0
    /\ call \in {[fn |-> "impute_coordinates",
                  records |-> records,
                  returned |-> FALSE,
                  result |-> <<>>] : records \in SeqsUpTo(LocatedRecords, MaxLocated)}

call_impute_coordinates ==
    /\ call.fn = "impute_coordinates"
    /\ ~call.returned
    /\ call' = [call EXCEPT !.returned = TRUE,
                            !.result = impute_coordinates(call.records)]
    /\ UNCHANGED <<csv_file, raw_records, processed_data, origin, errors,
                   report1, report2, report3, summary, pc,
                   system, transactions>>

NextLocated == call_impute_coordinates

SpecLocated == InitLocated /\ [][NextLocated]_vars

ProcessedFields == CleanedFields \cup {"cost_savings", "completion_delay_days"}

\* C27: impute_coordinates returns as many records as it was given, in the
\* same order; a latitude or longitude that was present is what it was,
\* and every other field of every record is what it was.
C27_OnlyAbsentCoordinatesChange ==
    (call.fn = "impute_coordinates" /\ call.returned) =>
        /\ Len(call.result) = Len(call.records)
        /\ \A i \in 1..Len(call.records) :
               /\ DOMAIN call.result[i] = ProcessedFields
               /\ \A f \in ProcessedFields \ {"project_latitude", "project_longitude"} :
                      call.result[i][f] = call.records[i][f]
               /\ \A f \in {"project_latitude", "project_longitude"} :
                      call.records[i][f] # None => call.result[i][f] = call.records[i][f]

\* A record with latitude 10 and no longitude got a longitude and kept its
\* latitude, although its province's mean latitude is 11.
C27_Witness ==
    /\ call.fn = "impute_coordinates" /\ call.returned
    /\ Len(call.records) = 3
    /\ call.records[1].project_latitude = Some(RInt(10))
    /\ call.records[1].project_longitude = None
    /\ call.result[1].project_latitude = Some(RInt(10))
    /\ call.result[1].project_longitude = Some(Rat(2491, 20))
    /\ call.records[2].project_latitude = Some(RInt(12))
    /\ call.records[2].province = call.records[1].province
    /\ call.records[3].project_latitude = None
    /\ call.result[3].project_latitude = Some(RInt(11))

(***************************************************************************)
(* write_csv on its own: a call on a report of a few rows; the state keeps *)
(* the text of the file it writes                                          *)
(***************************************************************************)
Quote == "\""

\* str::replace('"', "\"\"")
RECURSIVE DoubleQuotes(_)
DoubleQuotes(s) ==
    IF s = <<>> THEN <<>>
    ELSE (IF s[1] = Quote THEN <<Quote, Quote>> ELSE <<s[1]>>) \o DoubleQuotes(Tail(s))

Contains(s, chars) == \E i \in 1..Len(s) : s[i] \in chars

\* The value write_csv hands to the writer for a cell.
escaped(value) ==
    IF Contains(value, {",", Quote, "\n"})
    THEN <<Quote>> \o DoubleQuotes(value) \o <<Quote>>
    ELSE value

\* A field as csv::Writer writes it with its default settings: between
\* quotes, its quotes doubled, when it holds the delimiter, a quote or a
\* line break.
writer_field(field) ==
    IF Contains(field, {",", Quote, "\n", "\r"})
    THEN <<Quote>> \o DoubleQuotes(field) \o <<Quote>>
    ELSE field

\* Writer::write_record: the fields between commas, then the line break.
RECURSIVE write_record(_)
write_record(record) ==
    IF Len(record) = 1 THEN writer_field(record[1]) \o <<"\n">>
    ELSE writer_field(record[1]) \o <<",">> \o write_record(Tail(record))

\* row.get(header).cloned().unwrap_or_default()
cell_of(row, header) == IF header \in DOMAIN row THEN row[header] ELSE <<>>

RECURSIVE write_rows(_, _)
write_rows(data, headers) ==
    IF data = <<>> THEN <<>>
    ELSE write_record([h \in 1..Len(headers) |-> escaped(cell_of(data[1], headers[h]))])
         \o write_rows(Tail(data), headers)

\* The text of the file write_csv leaves.
write_csv(data, headers) == write_record(headers) \o write_rows(data, headers)

RegionHeader == <<"R", "e", "g", "i", "o", "n">>

BudgetHeader == <<"T", "o", "t", "a", "l", "B", "u", "d", "g", "e", "t">>

ReportHeaders == <<RegionHeader, BudgetHeader>>

\* Region texts as the input file can hold them.
RegionCells ==
    {<<>>, NCR, <<"R", ",", " ", "2">>, <<"a", Quote, "b", Quote>>, <<"x", "\n", "y">>}

\* TotalBudget texts as format_large_number gives them.
BudgetCells ==
    {format_large_number(RZero), format_large_number(Rat(12345675, 10)),
     format_large_number(RInt(-500))}

ReportRows ==
    {[h \in {RegionHeader, BudgetHeader} |-> IF h = RegionHeader THEN region ELSE budget] :
        region \in RegionCells, budget \in BudgetCells}

MaxReportRows == 2

\* main has not started; a call of write_csv is about to run.
InitCsv ==
    /\ csv_file = None
    /\ raw_records = None
    /\ processed_data = None
    /\ origin = <<>>
    /\ errors = <<>>
    /\ report1 = None
    /\ report2 = None
    /\ report3 = None
    /\ summary = None
    /\ pc = "menu"
    /\ system = None
    /\ transactions = 0
    /\ call \in {[fn |-> "write_csv",
                  data |-> data,
                  headers |-> ReportHeaders,
                  returned |-> FALSE,
                  file |-> <<>>] : data \in SeqsUpTo(ReportRows, MaxReportRows)}

call_write_csv ==
    /\ call.fn = "write_csv"
    /\ ~call.returned
    /\ call' = [call EXCEPT !.returned = TRUE,
                            !.file = write_csv(call.data, call.headers)]
    /\ UNCHANGED <<csv_file, raw_records, processed_data, origin, errors,
                   report1, report2, report3, summary, pc,
                   system, transactions>>

NextCsv == call_write_csv

SpecCsv == InitCsv /\ [][NextCsv]_vars

\* A standard CSV reader from position i of the text: a field that opens
\* with a quote runs to its closing quote, a doubled quote in it being one
\* quote; fields end at ',' and records at the line break.
RECURSIVE ReadFrom(_, _, _, _, _, _)
ReadFrom(text, i, quoted, field, record, records) ==
    IF i > Len(text)
    THEN IF field = <<>> /\ record = <<>> THEN records
         ELSE Append(records, Append(record, field))
    ELSE IF quoted
    THEN IF text[i] # Quote
         THEN ReadFrom(text, i + 1, TRUE, Append(field, text[i]), record, records)
         ELSE IF i < Len(text) /\ text[i + 1] = Quote
         THEN ReadFrom(text, i + 2, TRUE, Append(field, Quote), record, records)
         ELSE ReadFrom(text, i + 1, FALSE, field, record, records)
    ELSE IF text[i] = Quote /\ field = <<>>
    THEN ReadFrom(text, i + 1, TRUE, field, record, records)
    ELSE IF text[i] = ","
    THEN ReadFrom(text, i + 1, FALSE, <<>>, Append(record, field), records)
    ELSE IF text[i] = "\n"
    THEN ReadFrom(text, i + 1, FALSE, <<>>, <<>>, Append(records, Append(record, field)))
    ELSE ReadFrom(text, i + 1, FALSE, Append(field, text[i]), record, records)

ReadCsv(text) == ReadFrom(text, 1, FALSE, <<>>, <<>>, <<>>)

\* C28: a standard CSV reader gets back from the file write_csv wrote the
\* header texts and, for every row and every header, exactly the cell text
\* the row holds, also for cells that hold ',', '"' or a line break.
C28_CsvRoundTrip ==
    (call.fn = "write_csv" /\ call.returned) =>
        ReadCsv(call.file) =
            <<call.headers>>
            \o [r \in 1..Len(call.data) |->
                   [h \in 1..Len(call.headers) |-> call.data[r][call.headers[h]]]]

(***************************************************************************)
(* The banking ledger (src/MCO1): f64 values with their infinities and NaN *)
(***************************************************************************)
Fin(r) == [kind |-> "finite", v |-> r]

Inf == [kind |-> "inf", v |-> RInt(1)]

NegInf == [kind |-> "inf", v |-> RInt(-1)]

NaN == [kind |-> "nan", v |-> RZero]

FZero == Fin(RZero)

\* -1, 0 or 1 as the value is below, at or above zero (not for NaN).
FSign(a) == IF a.v.n < 0 THEN -1 ELSE IF a.v.n > 0 THEN 1 ELSE 0

\* a > b on f64: false when either is NaN.
FGt(a, b) ==
    /\ a.kind # "nan" /\ b.kind # "nan"
    /\ IF a.kind = "inf" THEN a.v.n > 0 /\ a # b
       ELSE IF b.kind = "inf" THEN b.v.n < 0
       ELSE RLt(b.v, a.v)

\* a <= b on f64: false when either is NaN.
FLe(a, b) == a.kind # "nan" /\ b.kind # "nan" /\ ~FGt(a, b)

FNeg(a) == IF a.kind = "nan" THEN NaN ELSE [a EXCEPT !.v = RSub(RZero, a.v)]

FAdd(a, b) ==
    IF a.kind = "nan" \/ b.kind = "nan" THEN NaN
    ELSE IF a.kind = "inf" THEN (IF b.kind = "inf" /\ a # b THEN NaN ELSE a)
    ELSE IF b.kind = "inf" THEN b
    ELSE Fin(RAdd(a.v, b.v))

FSub(a, b) == FAdd(a, FNeg(b))

FMul(a, b) ==
    IF a.kind = "nan" \/ b.kind = "nan" THEN NaN
    ELSE IF a.kind = "inf" \/ b.kind = "inf"
    THEN IF FSign(a) * FSign(b) = 0 THEN NaN
         ELSE IF FSign(a) * FSign(b) > 0 THEN Inf ELSE NegInf
    ELSE Fin(RMul(a.v, b.v))

FDiv(a, b) ==
    IF a.kind = "nan" \/ b.kind = "nan" THEN NaN
    ELSE IF a.kind = "inf"
    THEN IF b.kind = "inf" THEN NaN
         ELSE IF FSign(a) * FSign(b) < 0 THEN NegInf ELSE Inf
    ELSE IF b.kind = "inf" THEN FZero
    ELSE IF FSign(b) = 0
    THEN IF FSign(a) = 0 THEN NaN ELSE IF FSign(a) > 0 THEN Inf ELSE NegInf
    ELSE Fin(RDiv(a.v, b.v))

\* str::parse::<f64> as an Option: the literals inf and NaN, with any case
\* and an optional sign, and decimal numerals.
parse_f64(s) ==
    LET signed == s # <<>> /\ s[1] \in {"+", "-"}
        body   == IF signed THEN Tail(s) ELSE s
        word   == [i \in 1..Len(body) |->
                      IF body[i] \in {"I", "i"} THEN "i"
                      ELSE IF body[i] \in {"N", "n"} THEN "n"
                      ELSE IF body[i] \in {"F", "f"} THEN "f"
                      ELSE IF body[i] \in {"A", "a"} THEN "a"
                      ELSE body[i]]
    IN  IF word = <<"i", "n", "f">>
        THEN Some(IF signed /\ s[1] = "-" THEN NegInf ELSE Inf)
        ELSE IF word = <<"n", "a", "n">> THEN Some(NaN)
        ELSE IF ParseF64(s) = None THEN None
        ELSE Some(Fin(Unwrap(ParseF64(s))))

(***************************************************************************)
(* BankingSystem                                                           *)
(***************************************************************************)
Uppers == <<"A", "B", "C", "D", "E", "F", "G", "H", "I", "J", "K", "L", "M",
            "N", "O", "P", "Q", "R", "S", "T", "U", "V", "W", "X", "Y", "Z">>

Lowers == <<"a", "b", "c", "d", "e", "f", "g", "h", "i", "j", "k", "l", "m",
            "n", "o", "p", "q", "r", "s", "t", "u", "v", "w", "x", "y", "z">>

\* str::to_lowercase on unaccented letters.
to_lowercase(s) ==
    [i \in 1..Len(s) |->
        IF \E k \in 1..Len(Uppers) : Uppers[k] = s[i]
        THEN Lowers[CHOOSE k \in 1..Len(Uppers) : Uppers[k] = s[i]]
        ELSE s[i]]

BankingSystem_new ==
    [accounts |-> <<>>,
     exchange_rates |-> << [currency |-> "PHP", rate |-> Fin(RInt(1))],
                           [currency |-> "USD", rate |-> Fin(RInt(52))],
                           [currency |-> "JPY", rate |-> Fin(Rat(41, 100))],
                           [currency |-> "GBP", rate |-> Fin(RInt(70))],
                           [currency |-> "EUR", rate |-> Fin(RInt(60))],
                           [currency |-> "CNY", rate |-> Fin(RInt(8))] >>]

\* The first index whose account has the name, case put aside, or None.
find_account(self, name) ==
    LET hits == {i \in 1..Len(self.accounts) :
                    to_lowercase(self.accounts[i].name) = to_lowercase(name)}
    IN  IF hits = {} THEN None ELSE Some(CHOOSE i \in hits : \A j \in hits : i <= j)

get_balance(account, currency) ==
    IF currency = "PHP" THEN account.php
    ELSE IF currency = "USD" THEN account.usd
    ELSE IF currency = "JPY" THEN account.jpy
    ELSE IF currency = "GBP" THEN account.gbp
    ELSE IF currency = "EUR" THEN account.eur
    ELSE IF currency = "CNY" THEN account.cny
    ELSE FZero

set_balance(self, index, currency, amount) ==
    IF currency = "PHP" THEN [self EXCEPT !.accounts[index].php = amount]
    ELSE IF currency = "USD" THEN [self EXCEPT !.accounts[index].usd = amount]
    ELSE IF currency = "JPY" THEN [self EXCEPT !.accounts[index].jpy = amount]
    ELSE IF currency = "GBP" THEN [self EXCEPT !.accounts[index].gbp = amount]
    ELSE IF currency = "EUR" THEN [self EXCEPT !.accounts[index].eur = amount]
    ELSE IF currency = "CNY" THEN [self EXCEPT !.accounts[index].cny = amount]
    ELSE self

get_exchange_rate(self, currency) ==
    LET hits == {i \in 1..Len(self.exchange_rates) :
                    self.exchange_rates[i].currency = currency}
    IN  IF hits = {} THEN FZero
        ELSE self.exchange_rates[CHOOSE i \in hits : \A j \in hits : i <= j].rate

set_exchange_rate(self, currency, new_rate) ==
    LET hits == {i \in 1..Len(self.exchange_rates) :
                    self.exchange_rates[i].currency = currency}
    IN  IF hits = {} THEN self
        ELSE [self EXCEPT
                !.exchange_rates[CHOOSE i \in hits : \A j \in hits : i <= j].rate = new_rate]

get_currency_from_choice(choice) ==
    IF choice = <<"1">> THEN "PHP"
    ELSE IF choice = <<"2">> THEN "USD"
    ELSE IF choice = <<"3">> THEN "JPY"
    ELSE IF choice = <<"4">> THEN "GBP"
    ELSE IF choice = <<"5">> THEN "EUR"
    ELSE IF choice = <<"6">> THEN "CNY"
    ELSE ""

\* Each operation below takes the lines typed at its prompts and gives the
\* system it leaves.
register_account(self, name_line) ==
    LET name == Trim(name_line)
    IN  IF name # <<>> /\ find_account(self, name) = None
        THEN [self EXCEPT !.accounts =
                 Append(@, [name |-> name, php |-> FZero, usd |-> FZero, jpy |-> FZero,
                            gbp |-> FZero, eur |-> FZero, cny |-> FZero])]
        ELSE self

deposit_amount(self, name_line, amount_str) ==
    LET account_index == find_account(self, Trim(name_line))
        amount_result == parse_f64(Trim(amount_str))
    IN  IF account_index = None THEN self
        ELSE IF amount_result = None THEN self
        ELSE IF ~FGt(Unwrap(amount_result), FZero) THEN self
        ELSE [self EXCEPT !.accounts[Unwrap(account_index)].php =
                              FAdd(@, Unwrap(amount_result))]

withdraw_amount(self, name_line, currency_choice, amount_str) ==
    LET account_index == find_account(self, Trim(name_line))
        currency      == get_currency_from_choice(Trim(currency_choice))
        amount_result == parse_f64(Trim(amount_str))
    IN  IF account_index = None THEN self
        ELSE IF currency = "" THEN self
        ELSE IF amount_result = None THEN self
        ELSE IF ~FGt(Unwrap(amount_result), FZero) THEN self
        ELSE LET index           == Unwrap(account_index)
                 current_balance == get_balance(self.accounts[index], currency)
             IN  IF FLe(Unwrap(amount_result), current_balance)
                 THEN set_balance(self, index, currency,
                                  FSub(current_balance, Unwrap(amount_result)))
                 ELSE self

record_exchange_rate(self, choice, rate_str) ==
    LET currency    == get_currency_from_choice(Trim(choice))
        rate_result == parse_f64(Trim(rate_str))
    IN  IF currency = "" THEN self
        ELSE IF currency = "PHP" THEN self
        ELSE IF rate_result = None THEN self
        ELSE IF ~FGt(Unwrap(rate_result), FZero) THEN self
        ELSE set_exchange_rate(self, currency, Unwrap(rate_result))

\* One round of the loop of currency_exchange.
currency_exchange(self, name_line, source_choice, amount_str, target_choice) ==
    LET account_index   == find_account(self, Trim(name_line))
        source_currency == get_currency_from_choice(Trim(source_choice))
        amount_result   == parse_f64(Trim(amount_str))
        target_currency == get_currency_from_choice(Trim(target_choice))
    IN  IF account_index = None THEN self
        ELSE IF source_currency = "" THEN self
        ELSE IF amount_result = None THEN self
        ELSE IF FLe(Unwrap(amount_result), FZero) THEN self
        ELSE IF target_currency = "" THEN self
        ELSE IF source_currency = target_currency THEN self
        ELSE LET index            == Unwrap(account_index)
                 source_amount    == Unwrap(amount_result)
                 available_source == get_balance(self.accounts[index], source_currency)
                 source_rate      == get_exchange_rate(self, source_currency)
                 target_rate      == get_exchange_rate(self, target_currency)
                 exchanged_amount == FDiv(FMul(source_amount, source_rate), target_rate)
                 debited          == set_balance(self, index, source_currency,
                                                 FSub(available_source, source_amount))
                 current_target   == get_balance(debited.accounts[index], target_currency)
             IN  IF FGt(source_amount, available_source) THEN self
                 ELSE IF source_rate = FZero \/ target_rate = FZero THEN self
                 ELSE set_balance(debited, index, target_currency,
                                  FAdd(current_target, exchanged_amount))

(***************************************************************************)
(* The banking program: main's menu, one action per transaction            *)
(***************************************************************************)
NameLines == {<<>>, <<"a", "n", "n">>, <<" ", "A", "n", "n", " ">>, <<"b", "o">>}

AmountLines ==
    {<<"x">>, <<"0">>, <<"-", "5">>, <<" ", "5", "2", " ">>, <<"1", "0", "4">>,
     <<"i", "n", "f">>, <<"N", "a", "N">>}

ChoiceLines == {<<"1">>, <<"2">>, <<"3">>, <<"7">>}

RateLines == {<<"x">>, <<"0">>, <<"2">>, <<"i", "n", "f">>}

MaxTransactions == 4

\* main has built the BankingSystem and shows its menu.
InitBank ==
    /\ csv_file = None
    /\ raw_records = None
    /\ processed_data = None
    /\ origin = <<>>
    /\ errors = <<>>
    /\ report1 = None
    /\ report2 = None
    /\ report3 = None
    /\ summary = None
    /\ pc = "menu"
    /\ call = [fn |-> "none"]
    /\ system = Some(BankingSystem_new)
    /\ transactions = 0

\* The system after a transaction; everything else is as it was.
Transaction(after) ==
    /\ system # None
    /\ pc = "menu"
    /\ transactions < MaxTransactions
    /\ system' = Some(after)
    /\ transactions' = transactions + 1
    /\ UNCHANGED <<csv_file, raw_records, processed_data, origin, errors,
                   report1, report2, report3, summary, pc, call>>

option_register_account ==
    \E name_line \in NameLines :
        Transaction(register_account(Unwrap(system), name_line))

option_deposit_amount ==
    \E name_line \in NameLines, amount_str \in AmountLines :
        Transaction(deposit_amount(Unwrap(system), name_line, amount_str))

option_withdraw_amount ==
    \E name_line \in NameLines, currency_choice \in ChoiceLines, amount_str \in AmountLines :
        Transaction(withdraw_amount(Unwrap(system), name_line, currency_choice, amount_str))

option_currency_exchange ==
    \E name_line \in NameLines, source_choice \in ChoiceLines,
       amount_str \in AmountLines, target_choice \in ChoiceLines :
        Transaction(currency_exchange(Unwrap(system), name_line, source_choice,
                                      amount_str, target_choice))

option_record_exchange_rate ==
    \E choice \in ChoiceLines, rate_str \in RateLines :
        Transaction(record_exchange_rate(Unwrap(system), choice, rate_str))

\* show_interest_amount reads the system and prints.
option_show_interest_amount == Transaction(Unwrap(system))

\* Option 0: the program ends.
option_exit ==
    /\ system # None
    /\ pc = "menu"
    /\ pc' = "done"
    /\ UNCHANGED <<csv_file, raw_records, processed_data, origin, errors,
                   report1, report2, report3, summary, call, system, transactions>>

NextBank ==
    \/ option_register_account
    \/ option_deposit_amount
    \/ option_withdraw_amount
    \/ option_currency_exchange
    \/ option_record_exchange_rate
    \/ option_show_interest_amount
    \/ option_exit

SpecBank == InitBank /\ [][NextBank]_vars

Currencies == {"PHP", "USD", "JPY", "GBP", "EUR", "CNY"}

Bank == Unwrap(system)

\* The amount a line reads as is not positive, or is more than the
\* account has in the currency.
NotPositiveOrTooMuch(name_line, choice, amount_str) ==
    LET index  == find_account(Bank, Trim(name_line))
        amount == parse_f64(Trim(amount_str))
    IN  /\ index # None /\ amount # None
        /\ \/ ~FGt(Unwrap(amount), FZero)
           \/ FGt(Unwrap(amount),
                  get_balance(Bank.accounts[Unwrap(index)], get_currency_from_choice(choice)))

\* Every balance of every account is at least 0.
BalancesNotNegative ==
    \A i \in 1..Len(Bank.accounts) : \A currency \in Currencies :
        FLe(FZero, get_balance(Bank.accounts[i], currency))

\* A withdrawal of an amount that is not positive or more than the account
\* has changes nothing.
WithdrawalsRejected ==
    \A name_line \in NameLines, choice \in ChoiceLines, amount_str \in AmountLines :
        NotPositiveOrTooMuch(name_line, choice, amount_str) =>
            withdraw_amount(Bank, name_line, choice, amount_str) = Bank

\* An exchange of an amount that is not positive or more than the account
\* has in the source currency changes nothing.
ExchangesRejected ==
    \A name_line \in NameLines, choice \in ChoiceLines, amount_str \in AmountLines,
       target \in ChoiceLines :
        NotPositiveOrTooMuch(name_line, choice, amount_str) =>
            currency_exchange(Bank, name_line, choice, amount_str, target) = Bank

\* C29: in the banking ledger every balance of every account in every
\* currency is >= 0 after any sequence of register, deposit, withdraw,
\* currency-exchange and record-exchange-rate operations, and a withdrawal
\* or exchange whose amount is not positive or exceeds the available
\* source balance leaves all balances as they are.
C29_BalancesNeverNegative ==
    system # None =>
        /\ BalancesNotNegative
        /\ WithdrawalsRejected
        /\ ExchangesRejected

=============================================================================
